---- MODULE Spec2Model ----
(***************************************************************************)
(* Grid flow-network engine of whitebox-tools: FD8 flow accumulation       *)
(* (tools/hydro_analysis/fd8_flow_accum.rs) and basin delineation          *)
(* (tools/hydro_analysis/basins.rs) as state machines.                     *)
(*                                                                         *)
(* Reals (f64) are modelled exactly: elevations and cell sizes are small   *)
(* integers, accumulated values are rationals <<numerator, denominator>>   *)
(* in lowest terms, and the exponent of the FD8 weights is a small natural *)
(* number.  Rounding of f64 arithmetic is not modelled.                    *)
(***************************************************************************)
EXTENDS Integers, Sequences, FiniteSets, TLC

\* ------------------------------------------------------------------ bounds
MaxRows == 2
MaxCols == 3
MaxCells == 4
MaxElev == 3
MaxProcs == 2
MaxClass == 1
MaxArgs == 3

VARIABLES
    \* ---- FD8FlowAccumulation::run
    rows, columns,          \* input.configs.rows / columns
    nodata,                 \* input.configs.nodata
    input,                  \* the DEM, [cell -> elevation or nodata]
    cell_size_x, cell_size_y,
    exponent, convergence_threshold,
    num_procs,
    worker_row,             \* per worker: the next row of its filtered range
    worker_pit,             \* per worker: its local interior_pit_found
    chan,                   \* the mpsc channel: messages sent, not yet received
    num_received,           \* the collector's loop counter r
    recv_rows,              \* history: row indices in the order received
    num_inflowing,          \* Array2D<i8>
    output,                 \* the output raster, [cell -> rational]
    stack,                  \* Vec<(row, col)>, top is the last element
    interior_pit_found,     \* the collector's flag
    popped,                 \* history: cells in the order popped
    pushes,                 \* history: [cell -> number of times pushed]
    out_type, log_transform,
    fd8_result,             \* "running" | "Ok" | "Err"
    fd8_warnings,           \* warnings printed to the caller
    fd8_written,            \* output.write() succeeded
    pc,
    \* ---- Basins::run
    pntr_rows, pntr_columns,
    pntr_nodata,
    pntr,                   \* the D8 pointer raster
    esri_style,
    flow_dir,               \* Array2D<i8>, initial value and nodata -2
    basins,                 \* the output raster
    scan,                   \* row-major index of the (row, col) loop of the walks
    walk_x, walk_y,         \* x, y
    outlet_id,
    path1, path2,           \* history: the positions the first / second walk
                            \* of the current start cell has been at
    basins_result,          \* "running" | "Ok" | "Err"
    bpc,
    \* ---- Clump::run
    clump_rows, clump_columns,
    clump_nodata,
    clump_input,            \* the input raster of this run
    diag, zero_back,
    clump_output,           \* the output raster, starts at nodata
    fid,
    clump_stack,            \* Vec<(row, col)>, top is the last element
    zin,                    \* the value of the region being filled
    clump_scan,             \* row-major index of the (row, col) loop
    clump_writes,           \* history: [cell -> stores into output, counted up to 2]
    clump_pushed,           \* history: pushes of each cell, counted up to 2
    clump_run,              \* 1: first run, 2: run on the output of the first
    clump_orig,             \* history: the input of the first run
    clump_fid1,             \* history: fid at the end of the first run
    clump_result,           \* "running" | "Ok" | "Err"
    cpc,
    \* ---- ExtractStreams::run
    es_rows, es_columns,
    es_nodata,
    flow_accum,             \* the input raster
    fa_threshold,
    background_val,
    es_num_procs,
    es_worker_row,          \* per worker: the next row of its filtered range
    es_chan,                \* the mpsc channel: messages sent, not yet received
    es_received,            \* the collector's loop counter
    es_recv_rows,           \* history: row indices in the order received
    es_output,              \* the output raster
    es_result,              \* "running" | "Ok" | "Err"
    epc,
    \* ---- SedimentTransportIndex::run / WriteFunctionMemoryInsertion::run
    pi_tool,                \* which of the two tools runs
    pi_files,               \* (rows, columns) of each input file, in argument order
    input3_used,
    pi_num_procs,           \* num_cpus::get()
    pi_spawned,             \* worker threads started so far
    pi_worker_row,          \* next row of each worker
    pi_chan,                \* rows in the channel
    pi_created,             \* the output raster exists
    pi_recv_rows,           \* rows stored by set_row_data, in order
    pi_written,             \* output.write() has succeeded
    pi_result,              \* "running" | "InvalidInput" | "Ok" | "Err"
    ppc,
    \* ---- FD8FlowAccumulation::run, argument parsing
    args,                   \* the argument vector
    arg_i,                  \* index of the `for i in 0..args.len()` loop
    arg_input_file, arg_output_file,
    arg_out_type, arg_exponent, arg_threshold, arg_log, arg_clip,
    args_result,            \* "running" | "InvalidInput" | "parsed"
    apc,                    \* "start" | "loop" | "done" | "panic"
    \* ---- SplitColourComposite::run
    sc_rows, sc_columns, sc_nodata,
    sc_input,               \* the colour composite
    sc_num_procs,
    sc_worker_row,          \* next row of each worker
    sc_chan,                \* (row, data_r, data_g, data_b) messages in flight
    sc_recv_rows,           \* history: row indices in the order received
    output_r, output_g, output_b,
    sc_result,              \* "running" | "Ok" | "Err"
    spc

fd8vars == <<rows, columns, nodata, input, cell_size_x, cell_size_y, exponent,
             convergence_threshold, num_procs, worker_row, worker_pit, chan,
             num_received, recv_rows, num_inflowing, output, stack,
             interior_pit_found, popped, pushes, out_type, log_transform,
             fd8_result, fd8_warnings, fd8_written, pc>>

basinvars == <<pntr_rows, pntr_columns, pntr_nodata, pntr, esri_style, flow_dir,
               basins, scan, walk_x, walk_y, outlet_id, path1, path2,
               basins_result, bpc>>

\* the variables of the other tools, which a step of one tool leaves alone
clumpvars == <<clump_rows, clump_columns, clump_nodata, clump_input, diag,
               zero_back, clump_output, fid, clump_stack, zin, clump_scan,
               clump_writes, clump_pushed, clump_run, clump_orig, clump_fid1,
               clump_result, cpc>>

streamvars == <<es_rows, es_columns, es_nodata, flow_accum, fa_threshold,
                background_val, es_num_procs, es_worker_row, es_chan, es_received,
                es_recv_rows, es_output, es_result, epc>>

pairvars == <<pi_tool, pi_files, input3_used, pi_num_procs, pi_spawned,
              pi_worker_row, pi_chan, pi_created, pi_recv_rows, pi_written,
              pi_result, ppc>>

argvars == <<args, arg_i, arg_input_file, arg_output_file, arg_out_type,
             arg_exponent, arg_threshold, arg_log, arg_clip, args_result, apc>>

splitvars == <<sc_rows, sc_columns, sc_nodata, sc_input, sc_num_procs,
               sc_worker_row, sc_chan, sc_recv_rows, output_r, output_g,
               output_b, sc_result, spc>>

notFD8 == <<basinvars, clumpvars, streamvars, pairvars, argvars, splitvars>>
notBasins == <<fd8vars, clumpvars, streamvars, pairvars, argvars, splitvars>>
notClump == <<fd8vars, basinvars, streamvars, pairvars, argvars, splitvars>>
notStreams == <<fd8vars, basinvars, clumpvars, pairvars, argvars, splitvars>>
notPair == <<fd8vars, basinvars, clumpvars, streamvars, argvars, splitvars>>
notArgs == <<fd8vars, basinvars, clumpvars, streamvars, pairvars, splitvars>>
notSplit == <<fd8vars, basinvars, clumpvars, streamvars, pairvars, argvars>>

\* ------------------------------------------------------------- rationals
RECURSIVE Gcd(_, _)
Gcd(a, b) == IF b = 0 THEN a ELSE Gcd(b, a % b)

Abs(a) == IF a < 0 THEN -a ELSE a

\* the rational n/d (d > 0) in lowest terms
Rat(n, d) == LET g == Gcd(Abs(n), d) IN <<n \div g, d \div g>>

RatInt(n) == <<n, 1>>

RatAdd(p, q) == Rat(p[1] * q[2] + q[1] * p[2], p[2] * q[2])

\* p * (a / b), b > 0
RatScale(p, a, b) == Rat(p[1] * a, p[2] * b)

RatLess(p, q) == p[1] * q[2] < q[1] * p[2]

RatLeq(p, q) == p[1] * q[2] <= q[1] * p[2]

RECURSIVE Pow(_, _)
Pow(b, e) == IF e = 0 THEN 1 ELSE b * Pow(b, e - 1)

\* ------------------------------------------------------------- the grid
Cells == (0 .. rows - 1) \X (0 .. columns - 1)

InGrid(r, c) == r >= 0 /\ r < rows /\ c >= 0 /\ c < columns

\* Raster's Index<(isize, isize)>: a read outside the grid yields nodata
InputAt(r, c) == IF InGrid(r, c) THEN input[<<r, c>>] ELSE nodata

\* neighbour offsets, index 0 .. 7
d_x == [i \in 0 .. 7 |-> <<1, 1, 1, 0, -1, -1, -1, 0>>[i + 1]]
d_y == [i \in 0 .. 7 |-> <<-1, 0, 1, 1, 1, 0, -1, -1>>[i + 1]]

Nbr(cell, i) == <<cell[1] + d_y[i], cell[2] + d_x[i]>>

NbrZ(cell, i) == InputAt(cell[1] + d_y[i], cell[2] + d_x[i])

\* grid_lengths[i] squared: diag, x, diag, y, diag, x, diag, y
GridLenSq(i) ==
    IF i % 2 = 0 THEN cell_size_x * cell_size_x + cell_size_y * cell_size_y
    ELSE IF i \in {1, 5} THEN cell_size_x * cell_size_x
    ELSE cell_size_y * cell_size_y

Valid(cell) == input[cell] # nodata

ValidCells == {cell \in Cells : Valid(cell)}

\* ------------------------------------------------- in-degree worker (tid)
\* mutant: the neighbours counted are the lower ones
InflowCountLower(cell) ==
    Cardinality({i \in 0 .. 7 : NbrZ(cell, i) < input[cell]})

\* mutant: the neighbour loop stops after the first four offsets
InflowCountHalf(cell) ==
    Cardinality({i \in 0 .. 3 : NbrZ(cell, i) > input[cell]})

\* count of the 8 neighbours whose stored value is greater than z
InflowCount(cell) ==
    Cardinality({i \in 0 .. 7 : NbrZ(cell, i) > input[cell]})

\* mutant: nodata cells are counted like valid ones
RowDataAll(row) == [col \in 0 .. columns - 1 |-> InflowCount(<<row, col>>)]

\* the row buffer `data` a worker builds for `row`
RowData(row) ==
    [col \in 0 .. columns - 1 |->
        IF Valid(<<row, col>>) THEN InflowCount(<<row, col>>) ELSE -1]

RowHasPit(row) ==
    \E col \in 0 .. columns - 1 :
        Valid(<<row, col>>) /\ InflowCount(<<row, col>>) = 8

\* ------------------------------------------------------ the collector
\* mutant: a cell counts as ready one inflow too early
IsReadyEarly(count) == count = 0 \/ count = 1

\* the test that puts a cell on the stack (collector and propagation loop)
IsReady(count) == count = 0

\* cells of `row` pushed by the collector, in column order
RECURSIVE RowPushes(_, _, _)
RowPushes(row, data, col) ==
    IF col >= columns THEN <<>>
    ELSE (IF IsReady(data[col]) THEN <<(<<row, col>>)>> ELSE <<>>)
         \o RowPushes(row, data, col + 1)

\* mutant: the buffer is stored at the position of its arrival
SetRowDataByArrival(inflow, row, data) ==
    [cell \in Cells |-> IF cell[1] = num_received THEN data[cell[2]] ELSE inflow[cell]]

\* num_inflowing.set_row_data(row, data)
SetRowData(inflow, row, data) ==
    [cell \in Cells |-> IF cell[1] = row THEN data[cell[2]] ELSE inflow[cell]]

\* ------------------------------------------------ one pop of the stack
\* fa < convergence_threshold; the threshold is f64::INFINITY by default
BelowThreshold(fa, thr) == thr.inf \/ RatLess(fa, RatInt(thr.v))

\* multi-direction branch: z_n < z && z_n != nodata
LowerMulti(cell, i) == NbrZ(cell, i) < input[cell] /\ NbrZ(cell, i) # nodata

\* mutant: the exponent is not applied
MultiWeightLinear(cell, i) ==
    IF LowerMulti(cell, i) THEN input[cell] - NbrZ(cell, i) ELSE 0

MultiWeight(cell, i) ==
    IF LowerMulti(cell, i) THEN Pow(input[cell] - NbrZ(cell, i), exponent) ELSE 0

\* steepest-descent branch: z_n != nodata and slope > 0
LowerSteep(cell, i) == NbrZ(cell, i) # nodata /\ input[cell] - NbrZ(cell, i) > 0

\* slope(i) > slope(j) for two downslope directions, compared exactly:
\* drop_i / len_i > drop_j / len_j  <=>  drop_i^2 * len_j^2 > drop_j^2 * len_i^2
SlopeGreater(cell, i, j) ==
    LET di == input[cell] - NbrZ(cell, i)
        dj == input[cell] - NbrZ(cell, j)
    IN  di * di * GridLenSq(j) > dj * dj * GridLenSq(i)

\* mutant: the first downslope direction is taken, whatever its slope
SteepDirFirst(cell, i, dir) ==
    IF \E k \in 0 .. 7 : LowerSteep(cell, k)
    THEN CHOOSE k \in 0 .. 7 :
            LowerSteep(cell, k) /\ \A j \in 0 .. k - 1 : ~LowerSteep(cell, j)
    ELSE -1

\* the loop `for i in 0..8` of the else branch; dir = -1 stands for the
\* initial max_slope = f64::MIN (no slope recorded yet)
RECURSIVE SteepDir(_, _, _)
SteepDir(cell, i, dir) ==
    IF i > 7 THEN dir
    ELSE IF LowerSteep(cell, i) /\ (dir = -1 \/ SlopeGreater(cell, i, dir))
         THEN SteepDir(cell, i + 1, i)
         ELSE SteepDir(cell, i + 1, dir)

\* mutant: in the steepest-descent branch only the chosen direction is marked
DownslopeReceiver(cell, fa, i) ==
    IF BelowThreshold(fa, convergence_threshold)
    THEN LowerMulti(cell, i) ELSE SteepDir(cell, 0, -1) = i

Downslope(cell, fa, i) ==
    IF BelowThreshold(fa, convergence_threshold)
    THEN LowerMulti(cell, i) ELSE LowerSteep(cell, i)

Weight(cell, fa, i) ==
    IF BelowThreshold(fa, convergence_threshold)
    THEN MultiWeight(cell, i)
    ELSE IF SteepDir(cell, 0, -1) = i THEN 1 ELSE 0

RECURSIVE SumWeights(_, _, _)
SumWeights(cell, fa, i) ==
    IF i > 7 THEN 0 ELSE Weight(cell, fa, i) + SumWeights(cell, fa, i + 1)

TotalWeights(cell, fa) == SumWeights(cell, fa, 0)

\* fa * (weights[i] / total_weights)
Share(fa, w, total) == RatScale(fa, w, total)

\* mutant: the neighbour is pushed at every decrement
GiveToAlwaysPush(st, n, amount) ==
    [out    |-> [st.out EXCEPT ![n] = RatAdd(@, amount)],
     inflow |-> [st.inflow EXCEPT ![n] = @ - 1],
     stk    |-> Append(st.stk, n),
     pushes |-> [st.pushes EXCEPT ![n] = @ + 1]]

\* mutant: the share overwrites the neighbour's accumulator
GiveToOverwrite(st, n, amount) ==
    LET inflow2 == [st.inflow EXCEPT ![n] = @ - 1]
        ready == IsReady(inflow2[n])
    IN  [out    |-> [st.out EXCEPT ![n] = amount],
         inflow |-> inflow2,
         stk    |-> IF ready THEN Append(st.stk, n) ELSE st.stk,
         pushes |-> IF ready THEN [st.pushes EXCEPT ![n] = @ + 1] ELSE st.pushes]

\* output.increment / num_inflowing.decrement / push for one neighbour
GiveTo(st, n, amount) ==
    LET inflow2 == [st.inflow EXCEPT ![n] = @ - 1]
        ready == IsReady(inflow2[n])
    IN  [out    |-> [st.out EXCEPT ![n] = RatAdd(@, amount)],
         inflow |-> inflow2,
         stk    |-> IF ready THEN Append(st.stk, n) ELSE st.stk,
         pushes |-> IF ready THEN [st.pushes EXCEPT ![n] = @ + 1] ELSE st.pushes]

\* the loop `for i in 0..8` that hands the shares out
RECURSIVE Distribute(_, _, _, _, _)
Distribute(st, cell, fa, total, i) ==
    IF i > 7 THEN st
    ELSE IF Downslope(cell, fa, i)
         THEN Distribute(GiveTo(st, Nbr(cell, i), Share(fa, Weight(cell, fa, i), total)),
                         cell, fa, total, i + 1)
         ELSE Distribute(st, cell, fa, total, i + 1)

\* one iteration of `while !stack.is_empty()`
PopStep(st) ==
    LET cell == st.stk[Len(st.stk)]
        fa == st.out[cell]
        st1 == [st EXCEPT !.stk = SubSeq(st.stk, 1, Len(st.stk) - 1),
                          !.inflow = [st.inflow EXCEPT ![cell] = -1]]
        total == TotalWeights(cell, fa)
    IN  IF total > 0 THEN Distribute(st1, cell, fa, total, 0) ELSE st1

\* ------------------------------------------------------------ FD8: Init
vars == <<fd8vars, basinvars, clumpvars, streamvars, pairvars, argvars, splitvars>>

\* FD8FlowAccumulation is not running
FD8Idle ==
    /\ rows = 0 /\ columns = 0 /\ nodata = 0 /\ input = <<>>
    /\ cell_size_x = 0 /\ cell_size_y = 0 /\ exponent = 0
    /\ convergence_threshold = 0 /\ num_procs = 0
    /\ worker_row = <<>> /\ worker_pit = <<>> /\ chan = <<>>
    /\ num_received = 0 /\ recv_rows = <<>> /\ num_inflowing = <<>>
    /\ output = <<>> /\ stack = <<>> /\ interior_pit_found = FALSE
    /\ popped = <<>> /\ pushes = <<>> /\ out_type = "" /\ log_transform = FALSE
    /\ fd8_result = "idle" /\ fd8_warnings = {} /\ fd8_written = FALSE
    /\ pc = "idle"

\* Basins is not running
BasinsIdle ==
    /\ pntr_rows = 0 /\ pntr_columns = 0 /\ pntr_nodata = 0 /\ pntr = <<>>
    /\ esri_style = FALSE /\ flow_dir = <<>> /\ basins = <<>> /\ scan = 0
    /\ walk_x = 0 /\ walk_y = 0 /\ outlet_id = 0
    /\ path1 = <<>> /\ path2 = <<>>
    /\ basins_result = "idle" /\ bpc = "idle"

\* Clump is not running
ClumpIdle ==
    /\ clump_rows = 0 /\ clump_columns = 0 /\ clump_nodata = 0
    /\ clump_input = <<>> /\ diag = FALSE /\ zero_back = FALSE
    /\ clump_output = <<>> /\ fid = 0 /\ clump_stack = <<>> /\ zin = 0
    /\ clump_scan = 0 /\ clump_writes = <<>> /\ clump_pushed = <<>>
    /\ clump_run = 0 /\ clump_orig = <<>> /\ clump_fid1 = 0
    /\ clump_result = "idle" /\ cpc = "idle"

\* ExtractStreams is not running
StreamsIdle ==
    /\ es_rows = 0 /\ es_columns = 0 /\ es_nodata = 0 /\ flow_accum = <<>>
    /\ fa_threshold = 0 /\ background_val = 0 /\ es_num_procs = 0
    /\ es_worker_row = <<>> /\ es_chan = <<>> /\ es_received = 0
    /\ es_recv_rows = <<>> /\ es_output = <<>>
    /\ es_result = "idle" /\ epc = "idle"

ArgsIdle ==
    /\ args = <<>> /\ arg_i = 0 /\ arg_input_file = "" /\ arg_output_file = ""
    /\ arg_out_type = "" /\ arg_exponent = <<0, 1>> /\ arg_threshold = 0
    /\ arg_log = FALSE /\ arg_clip = FALSE /\ args_result = "idle" /\ apc = "idle"

SplitIdle ==
    /\ sc_rows = 0 /\ sc_columns = 0 /\ sc_nodata = 0 /\ sc_input = <<>>
    /\ sc_num_procs = 0 /\ sc_worker_row = <<>> /\ sc_chan = <<>>
    /\ sc_recv_rows = <<>> /\ output_r = <<>> /\ output_g = <<>> /\ output_b = <<>>
    /\ sc_result = "idle" /\ spc = "idle"

PairIdle ==
    /\ pi_tool = "none" /\ pi_files = <<>> /\ input3_used = FALSE
    /\ pi_num_procs = 0 /\ pi_spawned = 0 /\ pi_worker_row = <<>>
    /\ pi_chan = <<>> /\ pi_created = FALSE /\ pi_recv_rows = <<>>
    /\ pi_written = FALSE /\ pi_result = "idle" /\ ppc = "idle"

Resolutions == {<<1, 1>>, <<1, 2>>}
Exponents == {1, 2}
Infinite == [inf |-> TRUE, v |-> 0]
Thresholds == {Infinite, [inf |-> FALSE, v |-> 2]}
OutTypes == {"sca", "cells", "ca"}

InitFD8 ==
    /\ rows \in 1 .. MaxRows
    /\ columns \in 1 .. MaxCols
    /\ rows * columns <= MaxCells
    /\ nodata \in {0, MaxElev + 1}
    /\ input \in [Cells -> (1 .. MaxElev) \cup {nodata}]
    /\ \E res \in Resolutions : cell_size_x = res[1] /\ cell_size_y = res[2]
    /\ exponent \in Exponents
    /\ convergence_threshold \in Thresholds
    /\ num_procs \in 1 .. MaxProcs
    /\ worker_row = [tid \in 0 .. num_procs - 1 |-> tid]
    /\ worker_pit = [tid \in 0 .. num_procs - 1 |-> FALSE]
    /\ chan = <<>>
    /\ num_received = 0
    /\ recv_rows = <<>>
    /\ num_inflowing = [cell \in Cells |-> -1]
    /\ output = [cell \in Cells |-> RatInt(1)]
    /\ stack = <<>>
    /\ interior_pit_found = FALSE
    /\ popped = <<>>
    /\ pushes = [cell \in Cells |-> 0]
    /\ out_type = "sca"
    /\ log_transform = FALSE
    /\ fd8_result = "running"
    /\ fd8_warnings = {}
    /\ fd8_written = FALSE
    /\ pc = "collect"
    /\ BasinsIdle
    /\ ClumpIdle
    /\ StreamsIdle
    /\ PairIdle
    /\ ArgsIdle
    /\ SplitIdle

\* --------------------------------------------------------- FD8: actions
\* mutant: a worker goes on to the row below, whoever owns it
NextRowBelow(row, procs) == row + 1

\* the next row of `(0..rows).filter(|r| r % num_procs == tid)` after `row`
NextRow(row, procs) == row + procs

\* a worker thread computes its next row and sends it
WorkerSend(tid) ==
    /\ worker_row[tid] < rows
    /\ LET row == worker_row[tid]
           pit == worker_pit[tid] \/ RowHasPit(row)
       IN  /\ chan' = Append(chan, [row |-> row, data |-> RowData(row), pit |-> pit])
           /\ worker_pit' = [worker_pit EXCEPT ![tid] = pit]
           /\ worker_row' = [worker_row EXCEPT ![tid] = NextRow(row, num_procs)]
    /\ UNCHANGED <<notFD8, rows, columns, nodata, input, cell_size_x, cell_size_y, exponent,
                   convergence_threshold, num_procs, num_received, recv_rows,
                   num_inflowing, output, stack, interior_pit_found, popped, pushes,
                   out_type, log_transform, fd8_result, fd8_warnings, fd8_written, pc>>

\* mutant: the newest message is received first
ChanRecvLast(ch) == [msg |-> ch[Len(ch)], rest |-> SubSeq(ch, 1, Len(ch) - 1)]

\* rx.recv() on a channel that holds a message: the oldest one
ChanRecv(ch) == [msg |-> Head(ch), rest |-> Tail(ch)]

\* mutant: the collector's loop ends after its first receive
CollectOverFirst(n) == n >= 1

\* `for r in 0..rows` has made all its iterations
CollectOver(n) == n = rows

\* one iteration of the collector's `for r in 0..rows`
Collect ==
    /\ pc = "collect"
    /\ num_received < rows
    /\ chan # <<>>
    /\ LET msg == ChanRecv(chan).msg
           new == RowPushes(msg.row, msg.data, 0)
       IN  /\ chan' = ChanRecv(chan).rest
           /\ num_inflowing' = SetRowData(num_inflowing, msg.row, msg.data)
           /\ interior_pit_found' = (interior_pit_found \/ msg.pit)
           /\ stack' = stack \o new
           /\ pushes' = [cell \in Cells |->
                            pushes[cell]
                            + Cardinality({k \in 1 .. Len(new) : new[k] = cell})]
           /\ recv_rows' = Append(recv_rows, msg.row)
    /\ num_received' = num_received + 1
    /\ pc' = IF CollectOver(num_received + 1) THEN "propagate" ELSE "collect"
    /\ UNCHANGED <<notFD8, rows, columns, nodata, input, cell_size_x, cell_size_y, exponent,
                   convergence_threshold, num_procs, worker_row, worker_pit, output,
                   popped, out_type, log_transform, fd8_result, fd8_warnings,
                   fd8_written>>

\* one iteration of `while !stack.is_empty()`
Pop ==
    /\ pc = "propagate"
    /\ stack # <<>>
    /\ LET st == PopStep([out |-> output, inflow |-> num_inflowing,
                          stk |-> stack, pushes |-> pushes])
       IN  /\ output' = st.out
           /\ num_inflowing' = st.inflow
           /\ stack' = st.stk
           /\ pushes' = st.pushes
    /\ popped' = Append(popped, stack[Len(stack)])
    /\ UNCHANGED <<notFD8, rows, columns, nodata, input, cell_size_x, cell_size_y, exponent,
                   convergence_threshold, num_procs, worker_row, worker_pit, chan,
                   num_received, recv_rows, interior_pit_found, out_type,
                   log_transform, fd8_result, fd8_warnings, fd8_written, pc>>

\* mutant: every output type is scaled by the cell area
ScaleFactorArea(ot) == <<cell_size_x * cell_size_y, 1>>

\* cell_area / avg_cell_size as the pair <<numerator, denominator>>
ScaleFactor(ot) ==
    IF ot = "cells" THEN <<1, 1>>
    ELSE IF ot = "ca" THEN <<cell_size_x * cell_size_y, 1>>
    ELSE <<2 * cell_size_x * cell_size_y, cell_size_x + cell_size_y>>

\* the post-pass over all cells; with log_transform the stored rational q of a
\* valid cell stands for ln(q)
Scaled(out, ot) ==
    [cell \in Cells |->
        IF input[cell] = nodata THEN RatInt(nodata)
        ELSE RatScale(out[cell], ScaleFactor(ot)[1], ScaleFactor(ot)[2])]

PostPass ==
    /\ pc = "propagate"
    /\ stack = <<>>
    /\ \E ot \in OutTypes, lg \in BOOLEAN :
        /\ out_type' = ot
        /\ log_transform' = lg
        /\ output' = Scaled(output, ot)
    /\ pc' = "write"
    /\ UNCHANGED <<notFD8, rows, columns, nodata, input, cell_size_x, cell_size_y, exponent,
                   convergence_threshold, num_procs, worker_row, worker_pit, chan,
                   num_received, recv_rows, num_inflowing, stack, interior_pit_found,
                   popped, pushes, fd8_result, fd8_warnings, fd8_written>>

\* warnings printed after a successful write
Warnings == IF interior_pit_found THEN {"interior pit"} ELSE {}

\* output.write(), the warning and the return value
WriteOutput ==
    /\ pc = "write"
    /\ \E ok \in BOOLEAN :
        /\ fd8_written' = ok
        /\ fd8_result' = IF ok THEN "Ok" ELSE "Err"
        /\ fd8_warnings' = IF ok THEN Warnings ELSE {}
    /\ pc' = "done"
    /\ UNCHANGED <<notFD8, rows, columns, nodata, input, cell_size_x, cell_size_y, exponent,
                   convergence_threshold, num_procs, worker_row, worker_pit, chan,
                   num_received, recv_rows, num_inflowing, output, stack,
                   interior_pit_found, popped, pushes, out_type, log_transform>>

NextFD8 ==
    \/ \E tid \in 0 .. num_procs - 1 : WorkerSend(tid)
    \/ Collect
    \/ Pop
    \/ PostPass
    \/ WriteOutput


SpecFD8 == InitFD8 /\ [][NextFD8]_vars

\* ------------------------------------------------- FD8: derived notions
Range(seq) == {seq[k] : k \in 1 .. Len(seq)}

PoppedSet == Range(popped)

\* valid neighbours of `cell` that are strictly higher: the cells that flow into it
HigherNbrs(cell) ==
    {n \in ValidCells : \E i \in 0 .. 7 : Nbr(cell, i) = n /\ input[n] > input[cell]}

\* valid neighbours of `cell` that are strictly lower
LowerNbrs(cell) ==
    {n \in ValidCells : \E i \in 0 .. 7 : Nbr(cell, i) = n /\ input[n] < input[cell]}

\* outlet cells: valid cells with no lower valid neighbour
Outlets == {cell \in ValidCells : LowerNbrs(cell) = {}}

\* valid cells whose in-degree counter is still non-zero (never popped)
Residual == {cell \in ValidCells : num_inflowing[cell] > 0}

RECURSIVE RatSum(_, _)
RatSum(f, S) ==
    IF S = {} THEN RatInt(0)
    ELSE LET x == CHOOSE y \in S : TRUE IN RatAdd(f[x], RatSum(f, S \ {x}))

PropagationOver == pc = "propagate" /\ stack = <<>>

\* C1: when the propagation loop has ended, the number of cells popped equals
\* the number of valid cells, unless a structural warning was raised.
C1_Exhaustion ==
    (pc = "done" /\ fd8_result = "Ok")
        => (Len(popped) = Cardinality(ValidCells) \/ fd8_warnings # {})

\* C2: a run that ends with valid cells whose in-degree counter is still
\* non-zero reports a warning to the caller, writes the partial result and
\* returns success.
C2_ResidualReported ==
    (pc = "done" /\ fd8_written /\ Residual # {})
        => (fd8_result = "Ok" /\ fd8_warnings # {})

\* C3: a cell is popped only after every strictly higher valid neighbour has
\* been popped, and no step of the propagation changes the accumulator of a
\* cell that is already popped (the value read at pop time is final).
C3_PopAfterInflow ==
    [][(pc = "propagate" /\ pc' = "propagate")
        => /\ HigherNbrs(stack[Len(stack)]) \subseteq PoppedSet
           /\ \A cell \in PoppedSet \cup {stack[Len(stack)]} :
                output'[cell] = output[cell]]_vars

C3_Witness ==
    \E cell \in PoppedSet :
        /\ Cardinality(HigherNbrs(cell)) >= 2
        /\ RatLess(RatInt(2), output[cell])
        /\ pc = "propagate"

\* C4: a cell is on the stack exactly when its in-degree counter is zero and
\* it has not been popped; every cell is pushed at most once and popped at
\* most once.
C4_StackIffReady ==
    /\ \A cell \in Cells :
        /\ (cell \in Range(stack)) <=> (num_inflowing[cell] = 0 /\ cell \notin PoppedSet)
        /\ pushes[cell] <= 1
    /\ Cardinality(Range(stack)) = Len(stack)
    /\ Cardinality(PoppedSet) = Len(popped)

C4_Witness ==
    /\ pc = "propagate"
    /\ Len(stack) >= 2
    /\ Len(popped) >= 1
    /\ \E cell \in Range(stack) : HigherNbrs(cell) # {}

\* C5: with no convergence threshold, when the propagation has ended the
\* values of the outlet cells sum to the number of valid cells.
C5_MassConserved ==
    (PropagationOver /\ convergence_threshold.inf)
        => RatSum(output, Outlets) = RatInt(Cardinality(ValidCells))

\* C6: up to the end of the propagation every valid cell's accumulator is at
\* least the baseline 1 and no step decreases it.
C6_Monotone ==
    [][(pc \in {"collect", "propagate"} /\ pc' \in {"collect", "propagate"})
        => \A cell \in ValidCells :
            /\ RatLeq(RatInt(1), output'[cell])
            /\ RatLeq(output[cell], output'[cell])]_vars

C6_Witness ==
    /\ pc = "propagate"
    /\ \E cell \in ValidCells :
        /\ output[cell][2] > 1
        /\ RatLess(RatInt(1), output[cell])

\* the run in which the rows arrive in increasing row index
RECURSIVE InOrderStack(_)
InOrderStack(row) ==
    IF row >= rows THEN <<>>
    ELSE RowPushes(row, RowData(row), 0) \o InOrderStack(row + 1)

RECURSIVE RunToEnd(_)
RunToEnd(st) == IF st.stk = <<>> THEN st ELSE RunToEnd(PopStep(st))

InOrderResult ==
    RunToEnd([out |-> [cell \in Cells |-> RatInt(1)],
              inflow |-> [cell \in Cells |-> RowData(cell[1])[cell[2]]],
              stk |-> InOrderStack(0),
              pushes |-> [cell \in Cells |-> 0]])

\* C7: whatever the order in which the rows arrive (and so the order of the
\* pushes and pops), the accumulator at the end of the propagation is the one
\* of the run in which the rows arrive in increasing order.
C7_OrderIndependent ==
    PropagationOver => output = InOrderResult.out

C7_Witness ==
    /\ PropagationOver
    /\ rows = 2
    /\ recv_rows = <<1, 0>>
    /\ \E cell \in ValidCells :
        /\ Cardinality(HigherNbrs(cell)) >= 2
        /\ \E a, b \in HigherNbrs(cell) : a[1] # b[1]

\* ====================================================== Basins::run
\* f64::MIN, the value of a cell that no walk has reached yet
low_value == -999999

\* the eight D8 pointer codes
Codes == {1, 2, 4, 8, 16, 32, 64, 128}

PntrCells == (0 .. pntr_rows - 1) \X (0 .. pntr_columns - 1)

InPntrGrid(r, c) == r >= 0 /\ r < pntr_rows /\ c >= 0 /\ c < pntr_columns

\* row-major position of a cell in the loops `for row .. for col ..`
PntrIndex(cell) == cell[1] * pntr_columns + cell[2]

dx == [i \in 0 .. 7 |-> <<1, 1, 1, 0, -1, -1, -1, 0>>[i + 1]]
dy == [i \in 0 .. 7 |-> <<-1, 0, 1, 1, 1, 0, -1, -1>>[i + 1]]

\* mutant: the Esri table is filled like the Whitebox one
PntrMatchesSame(esri) ==
    [v \in 0 .. 128 |->
        IF v = 1 THEN 0 ELSE IF v = 2 THEN 1 ELSE IF v = 4 THEN 2
        ELSE IF v = 8 THEN 3 ELSE IF v = 16 THEN 4 ELSE IF v = 32 THEN 5
        ELSE IF v = 64 THEN 6 ELSE IF v = 128 THEN 7 ELSE 0]

\* mutant: the Esri table does not wrap round, code 128 gets index 7 like code 64
PntrMatchesCollide(esri) ==
    [v \in 0 .. 128 |->
        IF v = 1 THEN (IF esri THEN 1 ELSE 0)
        ELSE IF v = 2 THEN (IF esri THEN 2 ELSE 1)
        ELSE IF v = 4 THEN (IF esri THEN 3 ELSE 2)
        ELSE IF v = 8 THEN (IF esri THEN 4 ELSE 3)
        ELSE IF v = 16 THEN (IF esri THEN 5 ELSE 4)
        ELSE IF v = 32 THEN (IF esri THEN 6 ELSE 5)
        ELSE IF v = 64 THEN (IF esri THEN 7 ELSE 6)
        ELSE IF v = 128 THEN 7 ELSE 0]

\* pntr_matches: [i8; 129], zero-filled, then eight slots assigned
PntrMatches(esri) ==
    [v \in 0 .. 128 |->
        IF ~esri
        THEN (IF v = 1 THEN 0 ELSE IF v = 2 THEN 1 ELSE IF v = 4 THEN 2
              ELSE IF v = 8 THEN 3 ELSE IF v = 16 THEN 4 ELSE IF v = 32 THEN 5
              ELSE IF v = 64 THEN 6 ELSE IF v = 128 THEN 7 ELSE 0)
        ELSE (IF v = 1 THEN 1 ELSE IF v = 2 THEN 2 ELSE IF v = 4 THEN 3
              ELSE IF v = 8 THEN 4 ELSE IF v = 16 THEN 5 ELSE IF v = 32 THEN 6
              ELSE IF v = 64 THEN 7 ELSE IF v = 128 THEN 0 ELSE 0)]

PntrValid(cell) == pntr[cell] # pntr_nodata

\* a pit: valid cell whose pointer value is not positive
IsPit(cell) == PntrValid(cell) /\ pntr[cell] <= 0

\* pntr_matches[z as usize] panics when the index is past the table's end
IndexPanics(cell) == PntrValid(cell) /\ pntr[cell] > 128

\* cells the initialisation loop reaches: all, or those before the panic
PanicIndex ==
    IF \E cell \in PntrCells : IndexPanics(cell)
    THEN PntrIndex(CHOOSE cell \in PntrCells :
            /\ IndexPanics(cell)
            /\ \A o \in PntrCells : IndexPanics(o) => PntrIndex(cell) <= PntrIndex(o))
    ELSE pntr_rows * pntr_columns

\* basin_id of a pit: the number of pits up to it in row-major order
\* mutant: every pit receives the first identifier
PitIdOne(cell) == 1

\* basin_id, counted up before each pit in row-major order
PitId(cell) ==
    Cardinality({o \in PntrCells : IsPit(o) /\ PntrIndex(o) <= PntrIndex(cell)})

InitFlowDir(cell) ==
    IF PntrIndex(cell) >= PanicIndex THEN -2
    ELSE IF ~PntrValid(cell) THEN -2
    ELSE IF pntr[cell] > 0 THEN PntrMatches(esri_style)[pntr[cell]]
    ELSE -1

InitOutput(cell) ==
    IF PntrIndex(cell) >= PanicIndex THEN low_value
    ELSE IF ~PntrValid(cell) THEN pntr_nodata
    ELSE IF pntr[cell] > 0 THEN low_value
    ELSE PitId(cell)

\* mutant: a read outside the grid yields 0
BasinsAtZero(out, y, x) == IF InPntrGrid(y, x) THEN out[<<y, x>>] ELSE 0

\* Raster's Index: a read outside the grid yields nodata
BasinsAt(out, y, x) == IF InPntrGrid(y, x) THEN out[<<y, x>>] ELSE pntr_nodata

\* Raster's IndexMut: a write outside the grid leaves every cell as it is
BasinsSet(out, y, x, v) ==
    IF InPntrGrid(y, x) THEN [out EXCEPT ![<<y, x>>] = v] ELSE out

\* Array2D's Index: a read outside the grid yields its nodata, -2
FlowDirAt(y, x) == IF InPntrGrid(y, x) THEN flow_dir[<<y, x>>] ELSE -2

PntrValues == {0, 3, 129} \cup Codes

InitBasins ==
    /\ pntr_rows \in 1 .. MaxRows
    /\ pntr_columns \in 1 .. MaxCols
    /\ pntr_rows * pntr_columns <= MaxCells
    /\ pntr_nodata = -32768
    /\ pntr \in [PntrCells -> PntrValues \cup {pntr_nodata}]
    /\ esri_style \in BOOLEAN
    /\ flow_dir = [cell \in PntrCells |-> -2]
    /\ basins = [cell \in PntrCells |-> low_value]
    /\ scan = 0
    /\ walk_x = 0 /\ walk_y = 0
    /\ outlet_id = pntr_nodata
    /\ path1 = <<>> /\ path2 = <<>>
    /\ basins_result = "running"
    /\ bpc = "init"
    /\ FD8Idle
    /\ ClumpIdle
    /\ StreamsIdle
    /\ PairIdle
    /\ ArgsIdle
    /\ SplitIdle

\* the initialisation loops over all cells (or up to the panic)
InitPass ==
    /\ bpc = "init"
    /\ flow_dir' = [cell \in PntrCells |-> InitFlowDir(cell)]
    /\ basins' = [cell \in PntrCells |-> InitOutput(cell)]
    /\ bpc' = IF PanicIndex < pntr_rows * pntr_columns THEN "panic" ELSE "scan"
    /\ UNCHANGED <<notBasins, pntr_rows, pntr_columns, pntr_nodata, pntr, esri_style,
                   scan, walk_x, walk_y, outlet_id, path1, path2, basins_result>>

\* history of a walk: the positions in the order they are first reached (a
\* walk that comes back to a position loops from there on)
Visit(path, cell) ==
    IF \E k \in 1..Len(path) : path[k] = cell THEN path ELSE Append(path, cell)

\* outlet_id = nodata, before the first walk
UnresolvedId == pntr_nodata

Unreached == {cell \in PntrCells : PntrIndex(cell) >= scan /\ basins[cell] = low_value}

\* the (row, col) loop advances to the next cell that holds low_value
StartWalk ==
    /\ bpc = "scan"
    /\ Unreached # {}
    /\ LET cell == CHOOSE c \in Unreached :
                        \A o \in Unreached : PntrIndex(c) <= PntrIndex(o)
       IN  /\ scan' = PntrIndex(cell)
           /\ walk_y' = cell[1]
           /\ walk_x' = cell[2]
           /\ path1' = <<cell>>
    /\ path2' = <<>>
    /\ outlet_id' = UnresolvedId
    /\ bpc' = "walk1"
    /\ UNCHANGED <<notBasins, pntr_rows, pntr_columns, pntr_nodata, pntr, esri_style,
                   flow_dir, basins, basins_result>>

StartCell == <<scan \div pntr_columns, scan % pntr_columns>>

\* one iteration of the first `while !flag`; when flag is set the second walk
\* is set up: x = col, y = row, output[(y, x)] = outlet_id
Walk1Step ==
    /\ bpc = "walk1"
    /\ LET dir == FlowDirAt(walk_y, walk_x)
           x2 == IF dir >= 0 THEN walk_x + dx[dir] ELSE walk_x
           y2 == IF dir >= 0 THEN walk_y + dy[dir] ELSE walk_y
           z == BasinsAt(basins, y2, x2)
           flag == dir < 0 \/ z # low_value
           id == IF dir >= 0 /\ z # low_value THEN z ELSE outlet_id
       IN  IF flag
           THEN /\ outlet_id' = id
                /\ walk_x' = StartCell[2]
                /\ walk_y' = StartCell[1]
                /\ basins' = BasinsSet(basins, StartCell[1], StartCell[2], id)
                /\ path1' = IF dir >= 0 THEN Visit(path1, <<y2, x2>>) ELSE path1
                /\ path2' = <<StartCell>>
                /\ bpc' = "walk2"
           ELSE /\ walk_x' = x2
                /\ walk_y' = y2
                /\ path1' = Visit(path1, <<y2, x2>>)
                /\ UNCHANGED <<outlet_id, basins, path2, bpc>>
    /\ UNCHANGED <<notBasins, pntr_rows, pntr_columns, pntr_nodata, pntr, esri_style,
                   flow_dir, scan, basins_result>>

\* mutant: the second walk stops after its first iteration
Walk2FlagEarly(dir, z) == TRUE

\* flag after one iteration of the second walk: no direction, or the cell
\* stepped onto already holds a value
Walk2Flag(dir, z) == dir < 0 \/ z # low_value

\* one iteration of the second `while !flag`
Walk2Step ==
    /\ bpc = "walk2"
    /\ LET dir == FlowDirAt(walk_y, walk_x)
           x2 == IF dir >= 0 THEN walk_x + dx[dir] ELSE walk_x
           y2 == IF dir >= 0 THEN walk_y + dy[dir] ELSE walk_y
           flag == Walk2Flag(dir, BasinsAt(basins, y2, x2))
       IN  /\ walk_x' = x2
           /\ walk_y' = y2
           /\ path2' = IF dir >= 0 THEN Visit(path2, <<y2, x2>>) ELSE path2
           /\ basins' = BasinsSet(basins, y2, x2, outlet_id)
           /\ bpc' = IF flag THEN "scan" ELSE "walk2"
           /\ scan' = IF flag THEN scan + 1 ELSE scan
    /\ UNCHANGED <<notBasins, pntr_rows, pntr_columns, pntr_nodata, pntr, esri_style,
                   flow_dir, outlet_id, path1, basins_result>>

\* the loops are over: output.write() and the return value
WriteBasins ==
    /\ bpc = "scan"
    /\ Unreached = {}
    /\ \E ok \in BOOLEAN : basins_result' = IF ok THEN "Ok" ELSE "Err"
    /\ bpc' = "done"
    /\ UNCHANGED <<notBasins, pntr_rows, pntr_columns, pntr_nodata, pntr, esri_style,
                   flow_dir, basins, scan, walk_x, walk_y, outlet_id, path1, path2>>

NextBasins ==
    \/ InitPass
    \/ StartWalk
    \/ Walk1Step
    \/ Walk2Step
    \/ WriteBasins

SpecBasins == InitBasins /\ [][NextBasins]_vars

\* the single thread of Basins::run keeps running while it has a step to take
SpecBasinsFair == SpecBasins /\ WF_vars(NextBasins)

\* ------------------------------------------------ Basins: derived notions
\* the (row, column) step a pointer code stands for in each scheme: both go
\* clockwise in powers of two, Whitebox from north-east (1 = NE, 2 = E, ...,
\* 128 = N), Esri from east (1 = E, 2 = SE, ..., 128 = NE)
Clockwise ==
    <<(<<-1, 1>>), (<<0, 1>>), (<<1, 1>>), (<<1, 0>>),
      (<<1, -1>>), (<<0, -1>>), (<<-1, -1>>), (<<-1, 0>>)>>

CodeRank(code) == CHOOSE k \in 0 .. 7 : Pow(2, k) = code

SchemeStep(code, esri) ==
    Clockwise[((CodeRank(code) + (IF esri THEN 1 ELSE 0)) % 8) + 1]

\* the cell a valid pointer code leads to (possibly outside the grid)
Downstream(cell) ==
    <<cell[1] + SchemeStep(pntr[cell], esri_style)[1],
      cell[2] + SchemeStep(pntr[cell], esri_style)[2]>>

NoCell == <<-1, -1>>

\* the pit at the end of a cell's pointer chain; NoCell when the chain leaves
\* the grid, meets nodata or an unmapped code, or is longer than `fuel`
RECURSIVE ChainEnd(_, _)
ChainEnd(cell, fuel) ==
    IF ~InPntrGrid(cell[1], cell[2]) THEN NoCell
    ELSE IF ~PntrValid(cell) THEN NoCell
    ELSE IF pntr[cell] <= 0 THEN cell
    ELSE IF pntr[cell] \notin Codes \/ fuel = 0 THEN NoCell
    ELSE ChainEnd(Downstream(cell), fuel - 1)

PitOf(cell) == ChainEnd(cell, pntr_rows * pntr_columns)

\* acyclic, and every pointer chain ends at a pit
WellFormedPntr == \A cell \in PntrCells : PntrValid(cell) => PitOf(cell) # NoCell

\* two valid non-pit cells that point at each other
TwoCycle ==
    \E a, b \in PntrCells :
        /\ a # b
        /\ pntr[a] \in Codes /\ pntr[b] \in Codes
        /\ Downstream(a) = b /\ Downstream(b) = a

BasinsEnded == bpc \in {"done", "panic"}

\* C8: on a pointer raster with a cycle of length 2 the run terminates.
C8_CycleTerminates == TwoCycle => <>BasinsEnded

\* C9: on an acyclic pointer raster whose chains all end at a pit, every valid
\* cell ends with the basin identifier given to the pit at the end of its chain.
C9_BasinOfPit ==
    (bpc = "done" /\ WellFormedPntr)
        => \A cell \in PntrCells :
            PntrValid(cell) => basins[cell] = PitId(PitOf(cell))

C9_Witness ==
    /\ bpc = "done"
    /\ WellFormedPntr
    /\ esri_style
    /\ Cardinality({cell \in PntrCells : IsPit(cell)}) >= 2
    /\ \E cell \in PntrCells :
        /\ PntrValid(cell) /\ ~IsPit(cell) /\ ~IsPit(Downstream(cell))
        /\ basins[cell] = 2

\* C10: a positive pointer value that is none of the eight codes yields no
\* flow direction: never a direction index 0 .. 7, and never a panic.
C10_UnmappedUndefined ==
    (bpc # "init")
        => /\ bpc # "panic"
           /\ \A cell \in PntrCells :
                (PntrValid(cell) /\ pntr[cell] > 0 /\ pntr[cell] \notin Codes)
                    => flow_dir[cell] \notin 0 .. 7

\* C11: in the Whitebox and in the Esri scheme the eight codes are translated
\* to direction indices in 0 .. 7, and two different codes never get the same
\* index (so the eight codes cover 0 .. 7).
C11_TableBijective ==
    (bpc \notin {"init", "panic"})
        => \A a, b \in PntrCells :
            (pntr[a] \in Codes /\ pntr[b] \in Codes)
                => /\ flow_dir[a] \in 0 .. 7
                   /\ (pntr[a] # pntr[b] => flow_dir[a] # flow_dir[b])
                   /\ (pntr[a] = pntr[b] => flow_dir[a] = flow_dir[b])

C11_Witness ==
    /\ bpc = "scan"
    /\ esri_style
    /\ \E a, b \in PntrCells :
        /\ pntr[a] = 128 /\ pntr[b] = 64
        /\ flow_dir[a] = 0 /\ flow_dir[b] = 7

\* ======================================================================
\* Clump (tools/gis_analysis/clump.rs)
\* ======================================================================
ClumpCells == (0 .. clump_rows - 1) \X (0 .. clump_columns - 1)
InClumpGrid(cell) == cell \in ClumpCells

\* Raster indexing: a read outside the grid returns nodata
ClumpInputAt(cell) == IF InClumpGrid(cell) THEN clump_input[cell] ELSE clump_nodata
ClumpOutputAt(out, cell) == IF InClumpGrid(cell) THEN out[cell] ELSE clump_nodata

\* mutant: the cardinal table is never selected
NumNeighboursFour(dg) == 4

\* mutant: the table of eight rows begins at north
ClumpDyFromNorth(dg) ==
    IF dg THEN [i \in 0 .. 7 |-> <<-1, -1, 0, 1, 1, 1, 0, -1>>[i + 1]]
    ELSE [i \in 0 .. 7 |-> <<-1, 0, 1, 0, 0, 0, 0, 0>>[i + 1]]

\* dx, dy, num_neighbours after the `if !diag` block
ClumpDx(dg) ==
    IF dg THEN [i \in 0 .. 7 |-> <<1, 1, 1, 0, -1, -1, -1, 0>>[i + 1]]
    ELSE [i \in 0 .. 7 |-> <<0, 1, 0, -1, 0, 0, 0, 0>>[i + 1]]
ClumpDy(dg) ==
    IF dg THEN [i \in 0 .. 7 |-> <<-1, 0, 1, 1, 1, 0, -1, -1>>[i + 1]]
    ELSE [i \in 0 .. 7 |-> <<-1, 0, 1, 0, 0, 0, 0, 0>>[i + 1]]
NumNeighbours(dg) == IF dg THEN 8 ELSE 4

\* f64::NEG_INFINITY, below every value a raster of the model holds
NegInfinity == -999999999

\* mutant: the flag is ignored
BackValNever(zb) == NegInfinity

BackVal(zb) == IF zb THEN 0 ELSE NegInfinity

\* mutant: any unlabelled cell of the grid joins the region
JoinsUnlabelled(out, cell, z) == InClumpGrid(cell) /\ out[cell] = clump_nodata

\* the test of the neighbour loop: zn == zin && zout == nodata
Joins(out, cell, z) ==
    /\ ClumpInputAt(cell) = z
    /\ ClumpOutputAt(out, cell) = clump_nodata

\* the i-th neighbour of the popped cell, i in 0 .. num_neighbours - 1
ClumpNbr(cell, i) == <<cell[1] + ClumpDy(diag)[i], cell[2] + ClumpDx(diag)[i]>>

CountWrite(w, cells) ==
    [c \in DOMAIN w |-> IF c \in cells /\ w[c] < 2 THEN w[c] + 1 ELSE w[c]]

ClumpValues == 0 .. MaxClass
ClumpNodatas == {-32768, MaxClass + 1}

ClumpStart(in) ==
    /\ clump_input = in
    /\ clump_output = [cell \in ClumpCells |-> clump_nodata]
    /\ fid = 0
    /\ clump_stack = <<>>
    /\ zin = 0
    /\ clump_scan = 0
    /\ clump_writes = [cell \in ClumpCells |-> 0]
    /\ clump_pushed = [cell \in ClumpCells |-> 0]
    /\ clump_result = "running"
    /\ cpc = "scan"

InitClump ==
    /\ clump_nodata \in ClumpNodatas
    /\ diag \in BOOLEAN
    /\ zero_back \in BOOLEAN
    /\ \/ /\ clump_rows \in 1 .. MaxRows
          /\ clump_columns \in 1 .. MaxCols
          /\ clump_rows * clump_columns <= MaxCells
          /\ \E in \in [ClumpCells -> ClumpValues \cup {clump_nodata}] : ClumpStart(in)
       \/ \* the flat raster of three rows and three columns
          /\ clump_rows = 3
          /\ clump_columns = 3
          /\ \E v \in ClumpValues : ClumpStart([cell \in ClumpCells |-> v])
    /\ clump_run = 1
    /\ clump_orig = clump_input
    /\ clump_fid1 = 0
    /\ FD8Idle
    /\ BasinsIdle
    /\ StreamsIdle
    /\ PairIdle
    /\ ArgsIdle
    /\ SplitIdle

\* the cell of the k-th iteration of `for row in 0..rows { for col in 0..columns`
ScanCell(k) == <<k \div clump_columns, k % clump_columns>>

\* one iteration of the (row, col) loop, up to the start of the while loop
ScanStep ==
    /\ cpc = "scan"
    /\ clump_scan < clump_rows * clump_columns
    /\ LET cell == ScanCell(clump_scan)
           z == clump_input[cell]
       IN  /\ clump_scan' = clump_scan + 1
           /\ IF z # clump_nodata /\ z # BackVal(zero_back)
                 /\ clump_output[cell] = clump_nodata
              THEN /\ fid' = fid + 1
                   /\ clump_output' = [clump_output EXCEPT ![cell] = fid + 1]
                   /\ clump_writes' = CountWrite(clump_writes, {cell})
                   /\ clump_stack' = <<cell>>
                   /\ clump_pushed' = CountWrite(clump_pushed, {cell})
                   /\ zin' = z
                   /\ cpc' = "fill"
              ELSE IF z = clump_nodata
              THEN UNCHANGED <<fid, clump_output, clump_writes, clump_stack,
                               clump_pushed, zin, cpc>>
              ELSE IF z = BackVal(zero_back)
              THEN /\ clump_output' = [clump_output EXCEPT ![cell] = BackVal(zero_back)]
                   /\ clump_writes' = CountWrite(clump_writes, {cell})
                   /\ UNCHANGED <<fid, clump_stack, clump_pushed, zin, cpc>>
              ELSE UNCHANGED <<fid, clump_output, clump_writes, clump_stack,
                               clump_pushed, zin, cpc>>
    /\ UNCHANGED <<notClump, clump_rows, clump_columns, clump_nodata, clump_input,
                   diag, zero_back, clump_run, clump_orig, clump_fid1, clump_result>>

\* one iteration of the while loop: pop a cell, label and push its neighbours.
\* A stack longer than the grid has cells only occurs when cells are pushed
\* again and again; the run then never ends, which the state "runaway" stands for.
FillPop ==
    /\ cpc = "fill"
    /\ clump_stack # <<>>
    /\ LET cell == clump_stack[Len(clump_stack)]
           rest == SubSeq(clump_stack, 1, Len(clump_stack) - 1)
           cand == [i \in 1 .. NumNeighbours(diag) |-> ClumpNbr(cell, i - 1)]
           new == SelectSeq(cand, LAMBDA c : Joins(clump_output, c, zin))
           newset == {new[i] : i \in 1 .. Len(new)}
       IN  /\ clump_output' = [c \in ClumpCells |->
                                  IF c \in newset THEN fid ELSE clump_output[c]]
           /\ clump_writes' = CountWrite(clump_writes, newset)
           /\ clump_pushed' = CountWrite(clump_pushed, newset)
           /\ clump_stack' = rest \o new
           /\ cpc' = IF Len(rest \o new) > clump_rows * clump_columns THEN "runaway"
                     ELSE IF rest \o new = <<>> THEN "scan" ELSE "fill"
    /\ UNCHANGED <<notClump, clump_rows, clump_columns, clump_nodata, clump_input,
                   diag, zero_back, fid, zin, clump_scan, clump_run, clump_orig,
                   clump_fid1, clump_result>>

\* output.write(): Err is returned, otherwise Ok(())
ClumpWrite ==
    /\ cpc = "scan"
    /\ clump_scan = clump_rows * clump_columns
    /\ \E ok \in BOOLEAN : clump_result' = IF ok THEN "Ok" ELSE "Err"
    /\ cpc' = "done"
    /\ UNCHANGED <<notClump, clump_rows, clump_columns, clump_nodata, clump_input,
                   diag, zero_back, clump_output, fid, clump_stack, zin, clump_scan,
                   clump_writes, clump_pushed, clump_run, clump_orig, clump_fid1>>

\* the tool is run again, with the same connectivity and no background flag,
\* on the raster the first run wrote
ClumpRerun ==
    /\ cpc = "done"
    /\ clump_run = 1
    /\ clump_result = "Ok"
    /\ ~zero_back
    /\ clump_run' = 2
    /\ clump_fid1' = fid
    /\ clump_input' = clump_output
    /\ clump_output' = [cell \in ClumpCells |-> clump_nodata]
    /\ fid' = 0
    /\ clump_stack' = <<>>
    /\ zin' = 0
    /\ clump_scan' = 0
    /\ clump_writes' = [cell \in ClumpCells |-> 0]
    /\ clump_pushed' = [cell \in ClumpCells |-> 0]
    /\ clump_result' = "running"
    /\ cpc' = "scan"
    /\ UNCHANGED <<notClump, clump_rows, clump_columns, clump_nodata, diag,
                   zero_back, clump_orig>>

NextClump ==
    \/ ScanStep
    \/ FillPop
    \/ ClumpWrite
    \/ ClumpRerun

SpecClump == InitClump /\ [][NextClump]_vars

\* ------------------------------------------------------------ Clump: claims
\* adjacency under the selected connectivity
Adjacent(a, b) ==
    LET dr == Abs(a[1] - b[1])
        dc == Abs(a[2] - b[2])
    IN  IF diag THEN a # b /\ dr <= 1 /\ dc <= 1 ELSE dr + dc = 1

\* the cells joined to the cells of S by paths of adjacent cells holding z
RECURSIVE JoinedTo(_, _)
JoinedTo(S, z) ==
    LET T == S \cup {c \in ClumpCells :
                        clump_input[c] = z /\ \E o \in S : Adjacent(o, c)}
    IN  IF T = S THEN S ELSE JoinedTo(T, z)

RegionOf(cell) == JoinedTo({cell}, clump_input[cell])

\* the valid cells that are not background
Foreground ==
    {c \in ClumpCells : clump_input[c] # clump_nodata
                        /\ clump_input[c] # BackVal(zero_back)}

ClumpEnded == cpc = "done"

\* C12: after the run two valid non-background cells carry the same label
\* exactly when a path of adjacent cells (under the selected connectivity)
\* holding the same input value joins them.
C12_LabelIffJoined ==
    ClumpEnded =>
        \A a, b \in Foreground :
            (clump_output[a] = clump_output[b]) <=> (b \in RegionOf(a))

\* the flat raster of three rows and columns, 8-connectivity, no background
\* flag: one label on all nine cells
C12_Witness ==
    /\ ClumpEnded
    /\ clump_rows = 3 /\ clump_columns = 3
    /\ diag /\ ~zero_back
    /\ fid = 1
    /\ \A c \in ClumpCells : clump_output[c] = 1

\* C13: over the whole run no cell's output is stored more than once.
C13_WrittenOnce == \A c \in ClumpCells : clump_writes[c] <= 1

\* the cells the first run labelled
Labelled1 == {c \in ClumpCells : clump_orig[c] # clump_nodata}

\* C14: the run on the output of a first run (no background flag, same
\* connectivity) assigns as many labels as the first run and partitions the
\* cells the first run labelled in the same way.
C14_Idempotent ==
    (ClumpEnded /\ clump_run = 2) =>
        /\ fid = clump_fid1
        /\ \A a, b \in Labelled1 :
            (clump_output[a] = clump_output[b]) <=> (clump_input[a] = clump_input[b])

\* C15: with the zero-background flag every valid cell holding 0 ends with
\* the one label 0, and no valid cell holding another value ever holds it.
C15_BackgroundLabel ==
    zero_back =>
        \A c \in ClumpCells :
            /\ (ClumpEnded /\ clump_input[c] = 0 /\ clump_input[c] # clump_nodata)
                    => clump_output[c] = 0
            /\ (clump_input[c] # 0 /\ clump_input[c] # clump_nodata)
                    => /\ clump_output[c] # 0
                       /\ clump_output[c] \in {clump_nodata} \cup (1 .. fid)

C15_Witness ==
    /\ ClumpEnded /\ zero_back
    /\ \E a, b, c \in ClumpCells :
        /\ a # b
        /\ clump_input[a] = 0 /\ clump_input[b] = 0 /\ ~Adjacent(a, b)
        /\ clump_output[a] = 0 /\ clump_output[b] = 0
        /\ clump_input[c] = 1 /\ clump_output[c] = 1

\* C16: a cell holding nodata in the input is never labelled and never
\* pushed; its output is nodata in every state.
C16_NodataUntouched ==
    (cpc # "idle") =>
        \A c \in ClumpCells :
            clump_input[c] = clump_nodata
                => /\ clump_output[c] = clump_nodata
                   /\ clump_writes[c] = 0
                   /\ clump_pushed[c] = 0
                   /\ \A i \in 1 .. Len(clump_stack) : clump_stack[i] # c

C16_Witness ==
    /\ ClumpEnded
    /\ \E a, b, c \in ClumpCells :
        /\ clump_input[b] = clump_nodata /\ clump_output[b] = clump_nodata
        /\ Adjacent(a, b) /\ Adjacent(b, c)
        /\ clump_input[a] = clump_input[c] /\ clump_input[a] # clump_nodata
        /\ clump_output[a] = 1 /\ clump_output[c] = 2

\* ======================================================================
\* ExtractStreams (tools/stream_network_analysis/extract_streams.rs)
\* ======================================================================
EsCells == (0 .. es_rows - 1) \X (0 .. es_columns - 1)

StreamThresholds == {0, 2}

\* the row buffer a worker builds for `row`
StreamRowData(row) ==
    [col \in 0 .. es_columns - 1 |->
        LET z == flow_accum[<<row, col>>]
        IN  IF z # es_nodata /\ z > fa_threshold THEN 1
            ELSE IF z # es_nodata THEN background_val
            ELSE es_nodata]

\* output.set_row_data(data.0, data.1)
StreamSetRowData(out, row, data) ==
    [cell \in EsCells |-> IF cell[1] = row THEN data[cell[2]] ELSE out[cell]]

InitStreams ==
    /\ es_rows \in 1 .. MaxRows
    /\ es_columns \in 1 .. MaxCols
    /\ es_rows * es_columns <= MaxCells
    /\ es_nodata \in {0, MaxElev + 1}
    /\ flow_accum \in [EsCells -> (1 .. MaxElev) \cup {es_nodata}]
    /\ fa_threshold \in StreamThresholds
    /\ \E zero_background \in BOOLEAN :
        background_val = IF zero_background THEN 0 ELSE es_nodata
    /\ es_num_procs \in 1 .. MaxProcs
    /\ es_worker_row = [tid \in 0 .. es_num_procs - 1 |-> tid]
    /\ es_chan = <<>>
    /\ es_received = 0
    /\ es_recv_rows = <<>>
    /\ es_output = [cell \in EsCells |-> es_nodata]
    /\ es_result = "running"
    /\ epc = "collect"
    /\ FD8Idle
    /\ BasinsIdle
    /\ ClumpIdle
    /\ PairIdle
    /\ ArgsIdle
    /\ SplitIdle

\* a worker thread builds its next row and sends it
StreamWorkerSend(tid) ==
    /\ es_worker_row[tid] < es_rows
    /\ LET row == es_worker_row[tid]
       IN  /\ es_chan' = Append(es_chan, [row |-> row, data |-> StreamRowData(row)])
           /\ es_worker_row' = [es_worker_row EXCEPT ![tid] = row + es_num_procs]
    /\ UNCHANGED <<notStreams, es_rows, es_columns, es_nodata, flow_accum,
                   fa_threshold, background_val, es_num_procs, es_received,
                   es_recv_rows, es_output, es_result, epc>>

\* one iteration of the collector's `for row in 0..rows`
StreamCollect ==
    /\ epc = "collect"
    /\ es_received < es_rows
    /\ es_chan # <<>>
    /\ LET msg == ChanRecv(es_chan).msg
       IN  /\ es_chan' = ChanRecv(es_chan).rest
           /\ es_output' = StreamSetRowData(es_output, msg.row, msg.data)
           /\ es_recv_rows' = Append(es_recv_rows, msg.row)
    /\ es_received' = es_received + 1
    /\ epc' = IF es_received + 1 = es_rows THEN "write" ELSE "collect"
    /\ UNCHANGED <<notStreams, es_rows, es_columns, es_nodata, flow_accum,
                   fa_threshold, background_val, es_num_procs, es_worker_row,
                   es_result>>

\* output.write(): Err is returned, otherwise Ok(())
StreamWrite ==
    /\ epc = "write"
    /\ \E ok \in BOOLEAN : es_result' = IF ok THEN "Ok" ELSE "Err"
    /\ epc' = "done"
    /\ UNCHANGED <<notStreams, es_rows, es_columns, es_nodata, flow_accum,
                   fa_threshold, background_val, es_num_procs, es_worker_row,
                   es_chan, es_received, es_recv_rows, es_output>>

NextStreams ==
    \/ \E tid \in 0 .. es_num_procs - 1 : StreamWorkerSend(tid)
    \/ StreamCollect
    \/ StreamWrite

SpecStreams == InitStreams /\ [][NextStreams]_vars

\* the two tools with a parallel row phase, one run of either
InitRowPhase == InitFD8 \/ InitStreams
NextRowPhase == NextFD8 \/ NextStreams
SpecRowPhase == InitRowPhase /\ [][NextRowPhase]_vars

\* ------------------------------------------- FD8: the parallel row phase
\* the collection loop has ended and no cell has been popped yet
Collected == pc = "propagate" /\ popped = <<>>

\* the rows sent so far, in the order of the sends
SentRows == recv_rows \o [i \in 1 .. Len(chan) |-> chan[i].row]

\* the same for ExtractStreams
StreamsCollected == epc = "write"
StreamSentRows == es_recv_rows \o [i \in 1 .. Len(es_chan) |-> es_chan[i].row]

C18_RowPhase ==
    [][/\ input' = input
       /\ flow_accum' = flow_accum
       /\ \A tid \in 0 .. es_num_procs - 1 :
            (es_worker_row'[tid] # es_worker_row[tid])
                => /\ es_worker_row[tid] % es_num_procs = tid
                   /\ \A k \in 1 .. Len(StreamSentRows) :
                        StreamSentRows[k] # es_worker_row[tid]
                   /\ Len(es_chan') = Len(es_chan) + 1
                   /\ SubSeq(es_chan', 1, Len(es_chan)) = es_chan
                   /\ es_chan'[Len(es_chan')].row = es_worker_row[tid]
                   /\ es_chan'[Len(es_chan')].data = StreamRowData(es_worker_row[tid])
                   /\ \A o \in 0 .. es_num_procs - 1 :
                        o # tid => es_worker_row'[o] = es_worker_row[o]
                   /\ es_output' = es_output
       /\ (es_received' # es_received)
            => \E k \in 1 .. Len(es_chan) :
                /\ es_recv_rows' = Append(es_recv_rows, es_chan[k].row)
                /\ es_output' =
                     [cell \in EsCells |-> IF cell[1] = es_chan[k].row
                                           THEN es_chan[k].data[cell[2]]
                                           ELSE es_output[cell]]
       /\ StreamsCollected'
            => /\ es_output' = [cell \in EsCells |-> StreamRowData(cell[1])[cell[2]]]
               /\ \A r \in 0 .. es_rows - 1 :
                    Cardinality({k \in 1 .. Len(es_recv_rows') : es_recv_rows'[k] = r}) = 1
       /\ \A tid \in 0 .. num_procs - 1 :
            (worker_row'[tid] # worker_row[tid])
                => /\ worker_row[tid] % num_procs = tid
                   /\ \A k \in 1 .. Len(SentRows) : SentRows[k] # worker_row[tid]
                   /\ Len(chan') = Len(chan) + 1
                   /\ SubSeq(chan', 1, Len(chan)) = chan
                   /\ chan'[Len(chan')].row = worker_row[tid]
                   /\ chan'[Len(chan')].data = RowData(worker_row[tid])
                   /\ \A o \in 0 .. num_procs - 1 :
                        o # tid => /\ worker_row'[o] = worker_row[o]
                                   /\ worker_pit'[o] = worker_pit[o]
                   /\ num_inflowing' = num_inflowing
       /\ (num_received' # num_received)
            => \E k \in 1 .. Len(chan) :
                /\ recv_rows' = Append(recv_rows, chan[k].row)
                /\ num_inflowing' =
                     [cell \in Cells |-> IF cell[1] = chan[k].row
                                         THEN chan[k].data[cell[2]]
                                         ELSE num_inflowing[cell]]
       /\ Collected'
            => /\ num_inflowing' = [cell \in Cells |-> RowData(cell[1])[cell[2]]]
               /\ \A r \in 0 .. rows - 1 :
                    Cardinality({k \in 1 .. Len(recv_rows') : recv_rows'[k] = r}) = 1
      ]_vars

C18_Witness ==
    /\ Collected
    /\ num_procs = 2
    /\ rows = 2
    /\ recv_rows = <<1, 0>>
    /\ num_inflowing = [cell \in Cells |-> RowData(cell[1])[cell[2]]]
    /\ \E a, b \in Cells : a[1] # b[1] /\ num_inflowing[a] # num_inflowing[b]

\* C19: after collection a valid cell's counter is the number of its valid
\* neighbours that are strictly higher, within 0 .. 8, and a nodata cell
\* holds -1.
C19_CounterIsHigherCount ==
    Collected =>
        \A cell \in Cells :
            IF Valid(cell)
            THEN /\ num_inflowing[cell] = Cardinality(HigherNbrs(cell))
                 /\ num_inflowing[cell] \in 0 .. 8
            ELSE num_inflowing[cell] = -1

\* C20: after collection the interior-pit flag is set exactly when some valid
\* cell has eight valid neighbours that are all strictly higher.
C20_PitFlagIff ==
    Collected =>
        (interior_pit_found
            <=> \E cell \in ValidCells : Cardinality(HigherNbrs(cell)) = 8)

\* ======================================================================
\* FD8: two fixed scenarios, run by the same actions
\* ======================================================================
\* the state of FD8FlowAccumulation::run before the first send, for an input
\* already chosen
FD8Start ==
    /\ \E res \in Resolutions : cell_size_x = res[1] /\ cell_size_y = res[2]
    /\ exponent \in Exponents
    /\ num_procs \in 1 .. MaxProcs
    /\ worker_row = [tid \in 0 .. num_procs - 1 |-> tid]
    /\ worker_pit = [tid \in 0 .. num_procs - 1 |-> FALSE]
    /\ chan = <<>>
    /\ num_received = 0
    /\ recv_rows = <<>>
    /\ num_inflowing = [cell \in Cells |-> -1]
    /\ output = [cell \in Cells |-> RatInt(1)]
    /\ stack = <<>>
    /\ interior_pit_found = FALSE
    /\ popped = <<>>
    /\ pushes = [cell \in Cells |-> 0]
    /\ out_type = "sca"
    /\ log_transform = FALSE
    /\ fd8_result = "running"
    /\ fd8_warnings = {}
    /\ fd8_written = FALSE
    /\ pc = "collect"
    /\ BasinsIdle
    /\ ClumpIdle
    /\ StreamsIdle
    /\ PairIdle
    /\ ArgsIdle
    /\ SplitIdle

Centre == <<1, 1>>
Ring == {cell \in Cells : cell # Centre}

\* three rows and columns, all valid, the centre strictly below its 8
\* neighbours; the corners vary freely, opposite edge cells are equal
InitPit ==
    /\ rows = 3
    /\ columns = 3
    /\ nodata \in {0, MaxElev + 1}
    /\ input \in [Cells -> 1 .. 3]
    /\ input[Centre] = 1
    /\ \A cell \in Ring : input[cell] > 1
    /\ input[<<1, 0>>] = input[<<1, 2>>]
    /\ input[<<0, 1>>] = input[<<2, 1>>]
    /\ convergence_threshold \in Thresholds
    /\ FD8Start

\* one row of five valid cells, strictly decreasing from left to right,
\* no convergence threshold
InitRamp ==
    /\ rows = 1
    /\ columns = 5
    /\ nodata \in {0, 6}
    /\ input = [cell \in Cells |-> 5 - cell[2]]
    /\ convergence_threshold = Infinite
    /\ FD8Start

InitScenario == InitPit \/ InitRamp
SpecScenario == InitScenario /\ [][NextFD8]_vars

IsPitScenario == rows = 3 /\ columns = 3
IsRampScenario == rows = 1 /\ columns = 5

\* C21 (as stated): the pit cell has in-degree 0 after collection, is an
\* initial seed of the stack and its accumulator never grows.
C21_PitIsSeed ==
    (IsPitScenario /\ pc = "propagate")
        => /\ (popped = <<>> => (num_inflowing[Centre] = 0 /\ Centre \in Range(stack)))
           /\ (Centre \notin PoppedSet => output[Centre] = RatInt(1))

\* C21 (amended): the pit cell has in-degree 8 after collection and the
\* interior-pit flag is set; it is not an initial seed; each popped neighbour
\* takes one from its counter, so it is pushed and popped only after all 8
\* neighbours; without a threshold every popped neighbour adds to its
\* accumulator.
C21_PitIsSink ==
    (IsPitScenario /\ pc = "propagate")
        => /\ interior_pit_found
           /\ (popped = <<>> => (num_inflowing[Centre] = 8 /\ Centre \notin Range(stack)))
           /\ (Centre \notin PoppedSet
                => num_inflowing[Centre] = 8 - Cardinality(Ring \cap PoppedSet))
           /\ (Centre \in Range(stack) \cup PoppedSet => Ring \subseteq PoppedSet)
           /\ (convergence_threshold.inf /\ Ring \cap PoppedSet # {}
                => RatLess(RatInt(1), output[Centre]))

C21_Witness ==
    /\ IsPitScenario
    /\ pc = "propagate"
    /\ popped # <<>>
    /\ popped[Len(popped)] = Centre
    /\ Len(popped) = 9
    /\ RatLess(RatInt(1), output[Centre])

\* C22: on the ramp, with output type 'cells' and no log transform, the final
\* values are 1, 2, 3, 4, 5 from left to right.
C22_RampValues ==
    (IsRampScenario /\ pc \in {"write", "done"} /\ out_type = "cells" /\ ~log_transform)
        => output = [cell \in Cells |-> RatInt(cell[2] + 1)]

\* ======================================================================
\* FD8: one step of the propagation loop
\* ======================================================================
\* runs in which the steepest-descent branch is taken from the first pop on
\* (threshold 1, every fa is >= 1) or once a cell has gathered 2
LowThresholds == {[inf |-> FALSE, v |-> 1], [inf |-> FALSE, v |-> 2]}

InitSteep ==
    /\ rows \in 1 .. MaxRows
    /\ columns \in 1 .. MaxCols
    /\ rows * columns <= MaxCells
    /\ nodata \in {0, MaxElev + 1}
    /\ input \in [Cells -> (1 .. MaxElev) \cup {nodata}]
    /\ convergence_threshold \in LowThresholds
    /\ FD8Start

SpecSteep == InitSteep /\ [][NextFD8]_vars

\* the step is an iteration of the while loop
IsPop == pc = "propagate" /\ stack # <<>> /\ popped' # popped
PopCell == stack[Len(stack)]

\* the direction from `cell` to its neighbour n
DirTo(cell, n) == CHOOSE i \in 0 .. 7 : Nbr(cell, i) = n

DropTo(cell, n) == input[cell] - input[n]

RECURSIVE SumOver(_, _)
SumOver(f, S) ==
    IF S = {} THEN 0
    ELSE LET x == CHOOSE y \in S : TRUE IN f[x] + SumOver(f, S \ {x})

\* (drop)^exponent of the lower valid neighbours of `cell`
DropWeights(cell) == [n \in LowerNbrs(cell) |-> Pow(DropTo(cell, n), exponent)]

\* slope to a is at most the slope to b, compared exactly through squares
SlopeLeq(cell, a, b) ==
    DropTo(cell, a) * DropTo(cell, a) * GridLenSq(DirTo(cell, b))
        <= DropTo(cell, b) * DropTo(cell, b) * GridLenSq(DirTo(cell, a))

\* C23: a pop with fa below the threshold adds fa * w / sum(w), w = drop^exponent,
\* to every strictly lower valid neighbour, the shares sum to fa, and no
\* other cell's accumulator changes.
C23_MultiShares ==
    [][(IsPop /\ BelowThreshold(output[PopCell], convergence_threshold))
        => LET cell == PopCell
               fa == output[cell]
               w == DropWeights(cell)
               total == SumOver(w, LowerNbrs(cell))
               share == [n \in LowerNbrs(cell) |-> RatScale(fa, w[n], total)]
           IN  /\ \A n \in LowerNbrs(cell) :
                    output'[n] = RatAdd(output[n], share[n])
               /\ \A n \in Cells \ LowerNbrs(cell) : output'[n] = output[n]
               /\ (LowerNbrs(cell) # {} => RatSum(share, LowerNbrs(cell)) = fa)]_vars

\* a first pop with exponent 2 and drops 1 and 2: shares 1/5 and 4/5
C23_Witness ==
    /\ pc = "propagate"
    /\ convergence_threshold.inf
    /\ exponent = 2
    /\ Len(popped) = 1
    /\ \E a, b \in LowerNbrs(popped[1]) :
        /\ DropTo(popped[1], a) = 1 /\ DropTo(popped[1], b) = 2
        /\ output[a] = <<6, 5>> /\ output[b] = <<9, 5>>

\* C24: a pop with fa at or above the threshold and some lower valid
\* neighbour adds the full fa to exactly one neighbour, one of maximum slope,
\* and changes no other accumulator.
C24_SteepestOnly ==
    [][(IsPop /\ ~BelowThreshold(output[PopCell], convergence_threshold)
              /\ LowerNbrs(PopCell) # {})
        => LET cell == PopCell
               fa == output[cell]
           IN  \E n \in LowerNbrs(cell) :
                /\ output'[n] = RatAdd(output[n], fa)
                /\ output'[n] # output[n]
                /\ \A o \in LowerNbrs(cell) : SlopeLeq(cell, o, n)
                /\ \A o \in Cells \ {n} : output'[o] = output[o]]_vars

\* a first pop in steepest-descent mode with two lower neighbours of
\* different slope: the steeper one holds 2, the other still 1
C24_Witness ==
    /\ pc = "propagate"
    /\ convergence_threshold = [inf |-> FALSE, v |-> 1]
    /\ Len(popped) = 1
    /\ \E a, b \in LowerNbrs(popped[1]) :
        /\ ~SlopeLeq(popped[1], a, b)
        /\ output[a] = RatInt(2) /\ output[b] = RatInt(1)

\* C25 (as stated): a pop decrements the counter of exactly the neighbours
\* whose accumulator it increases.
C25_DecrementIffContribution ==
    [][IsPop => \A n \in Cells \ {PopCell} :
                    (num_inflowing'[n] # num_inflowing[n]) <=> (output'[n] # output[n])]_vars

\* C25 (amended): a pop decrements by one the counter of exactly the valid
\* neighbours strictly lower than the popped cell, pushes those whose counter
\* reaches zero and no other cell, and increases accumulators only among them.
C25_DecrementLower ==
    [][IsPop => \A n \in Cells \ {PopCell} :
                    /\ num_inflowing'[n] =
                         IF n \in LowerNbrs(PopCell) THEN num_inflowing[n] - 1
                         ELSE num_inflowing[n]
                    /\ (pushes'[n] = pushes[n] + 1)
                         <=> (n \in LowerNbrs(PopCell) /\ num_inflowing'[n] = 0)
                    /\ pushes'[n] \in {pushes[n], pushes[n] + 1}
                    /\ (output'[n] # output[n] => n \in LowerNbrs(PopCell))]_vars

\* after a first pop in steepest-descent mode a lower neighbour has lost an
\* inflow without receiving anything
C25_Witness ==
    /\ pc = "propagate"
    /\ ~convergence_threshold.inf
    /\ convergence_threshold.v = 1
    /\ Len(popped) = 1
    /\ \E a, b \in LowerNbrs(popped[1]) :
        /\ output[a] = RatInt(2)
        /\ output[b] = RatInt(1)
        /\ num_inflowing[b] = Cardinality(HigherNbrs(b)) - 1

\* ---------------------------------------------------------------------------
\* Basins: the two walks of one start cell
\* ---------------------------------------------------------------------------

PathCells(path) == {path[k] : k \in 1..Len(path)}

Last(path) == path[Len(path)]

IsPrefix(p, q) == Len(p) <= Len(q) /\ \A k \in 1..Len(p) : p[k] = q[k]

Changed == {cell \in PntrCells : basins'[cell] # basins[cell]}

\* C26: the first walk of a start cell writes nothing to the output; the second
\* walk goes through the same positions in the same order and leaves the outlet
\* identifier in each of them; no cell off the path changes and the cell that
\* ends the path keeps the value it had.
C26_TwoPassWalk ==
    [][ /\ (bpc = "walk1" /\ bpc' = "walk1") => Changed = {}
        /\ (bpc = "walk1" /\ bpc' = "walk2") =>
               /\ Changed \subseteq {path1[1]}
               /\ basins'[path1[1]] = outlet_id'
        /\ bpc = "walk2" =>
               /\ IsPrefix(path2', path1)
               /\ \A cell \in Changed :
                      /\ cell \in PathCells(path1)
                      /\ cell # Last(path1)
                      /\ basins'[cell] = outlet_id
               /\ bpc' = "scan" =>
                      /\ path2' = path1
                      /\ \A cell \in PathCells(path1) \cap PntrCells :
                             basins'[cell] = outlet_id
      ]_vars

\* a finished pair of walks over two unset cells into a pit, a fourth cell
\* still unset
C26_Witness ==
    /\ bpc = "scan" /\ Len(path1) = 3 /\ path2 = path1
    /\ Last(path1) \in PntrCells /\ flow_dir[Last(path1)] = -1
    /\ outlet_id >= 1
    /\ \A k \in 1..3 : basins[path1[k]] = outlet_id
    /\ \E cell \in PntrCells : basins[cell] = low_value

Pits == {cell \in PntrCells : IsPit(cell)}

Initialised == bpc \in {"scan", "walk1", "walk2", "done"}

\* C27: once the initialisation loop has run, every pit holds a positive
\* identifier, two different pits hold different identifiers, and no later
\* step changes the value of a pit, so each pit ends with the identifier it
\* was given.
C27_PitsKeepIds ==
    /\ [](Initialised =>
            \A a \in Pits :
                /\ basins[a] >= 1
                /\ \A b \in Pits \ {a} : basins[a] # basins[b])
    /\ [][Initialised => \A a \in Pits : basins'[a] = basins[a]]_vars

\* a finished run with two pits, the second one reached by a walk that ends
\* on it
C27_Witness ==
    /\ bpc = "done"
    /\ ~esri_style
    /\ Cardinality(Pits) = 2
    /\ \E cell \in PntrCells, pit \in Pits :
        /\ pntr[cell] \in Codes
        /\ Downstream(cell) = pit
        /\ basins[pit] = 2 /\ basins[cell] = 2

\* C28: a cell whose pointer chain comes to a cell without a direction and
\* without a label (an unmapped code), to a nodata cell or to a position
\* outside the grid, before any pit, ends the run with the nodata identifier.
C28_UnresolvedNodata ==
    bpc = "done"
        => \A cell \in PntrCells :
            (PntrValid(cell) /\ PitOf(cell) = NoCell) => basins[cell] = pntr_nodata

\* ---------------------------------------------------------------------------
\* The neighbour offset tables
\* ---------------------------------------------------------------------------

\* the first n (row-delta, column-delta) pairs of a pair of tables
Offsets(dyt, dxt, n) == [i \in 0 .. n - 1 |-> <<dyt[i], dxt[i]>>]

North == <<-1, 0>>
NorthEast == <<-1, 1>>

RingPos(o) == CHOOSE k \in 1 .. 8 : Clockwise[k] = o

\* eight offsets, each the clockwise successor of the one before, from `first`
ClockwiseFrom(t, first) ==
    /\ DOMAIN t = 0 .. 7
    /\ t[0] = first
    /\ \A i \in 0 .. 6 :
        /\ t[i] \in PathCells(Clockwise)
        /\ t[i + 1] = Clockwise[(RingPos(t[i]) % 8) + 1]

Cardinals == {o \in PathCells(Clockwise) : o[1] = 0 \/ o[2] = 0}

\* the four rows in use are the four cardinal offsets, each once
FourCardinals(t) ==
    /\ DOMAIN t = 0 .. 3
    /\ {t[i] : i \in 0 .. 3} = Cardinals

TablesFrom(first) ==
    /\ ClockwiseFrom(Offsets(d_y, d_x, 8), first)
    /\ ClockwiseFrom(Offsets(dy, dx, 8), first)
    /\ ClockwiseFrom(Offsets(ClumpDy(TRUE), ClumpDx(TRUE), NumNeighbours(TRUE)), first)
    /\ FourCardinals(Offsets(ClumpDy(FALSE), ClumpDx(FALSE), NumNeighbours(FALSE)))
    /\ LET used == Offsets(ClumpDy(diag), ClumpDx(diag), NumNeighbours(diag))
       IN  \A i \in DOMAIN used :
               \E j \in 0 .. 7 : used[i] = <<ClumpDy(TRUE)[j], ClumpDx(TRUE)[j]>>

\* C29 (as stated): the eight offsets of the flow and labelling tools go
\* clockwise from north, and the 4-connectivity table is the four cardinal
\* offsets of that table with the same values.
C29_ClockwiseFromNorth == TablesFrom(North)

\* C29 (amended): the eight offsets go clockwise from north-east (north is
\* the last one), and the 4-connectivity table is the four cardinal offsets
\* of that table with the same values.
C29_ClockwiseFromNorthEast == TablesFrom(NorthEast)

\* a finished 8-connected run that has joined a cell to its north-east
\* neighbour only
C29_Witness ==
    /\ ClumpEnded /\ diag
    /\ clump_rows = 2 /\ clump_columns = 2
    /\ clump_input[<<1, 0>>] = 1 /\ clump_input[<<0, 1>>] = 1
    /\ clump_input[<<0, 0>>] = clump_nodata /\ clump_input[<<1, 1>>] = clump_nodata
    /\ clump_output[<<1, 0>>] = 1 /\ clump_output[<<0, 1>>] = 1

\* ---------------------------------------------------------------------------
\* SedimentTransportIndex::run and WriteFunctionMemoryInsertion::run: the
\* size test on the input rasters and the row phase behind it
\* ---------------------------------------------------------------------------

PairTools == {"SedimentTransportIndex", "WriteFunctionMemoryInsertion"}

\* configs.rows / configs.columns of an opened raster
Sizes == [rows : 1 .. MaxRows, columns : 1 .. MaxCols]

\* mutant: only the row counts are compared
SameSizeRows(a, b) == a.rows = b.rows

\* the test that lets a pair of rasters through: neither `rows != rows` nor
\* `columns != columns`
SameSize(a, b) == a.rows = b.rows /\ a.columns = b.columns

\* sca / input_r
FirstInput == pi_files[1]

\* slope / input_g
SecondInput == pi_files[2]

\* input_b: the third file, or the second one opened again
ThirdInput == IF input3_used THEN pi_files[3] ELSE pi_files[2]

SizesAgree ==
    IF pi_tool = "SedimentTransportIndex"
    THEN SameSize(FirstInput, SecondInput)
    ELSE SameSize(FirstInput, SecondInput) /\ SameSize(FirstInput, ThirdInput)

\* rows of the run: those of the first input
PairRows == FirstInput.rows

InitPair ==
    /\ pi_tool \in PairTools
    /\ input3_used \in BOOLEAN
    /\ pi_tool = "SedimentTransportIndex" => ~input3_used
    /\ pi_files \in [1 .. (IF input3_used THEN 3 ELSE 2) -> Sizes]
    /\ pi_num_procs \in 1 .. MaxProcs
    /\ pi_spawned = 0
    /\ pi_worker_row = [tid \in 0 .. pi_num_procs - 1 |-> tid]
    /\ pi_chan = <<>>
    /\ pi_created = FALSE
    /\ pi_recv_rows = <<>>
    /\ pi_written = FALSE
    /\ pi_result = "running"
    /\ ppc = "check"
    /\ FD8Idle
    /\ BasinsIdle
    /\ ClumpIdle
    /\ StreamsIdle
    /\ ArgsIdle
    /\ SplitIdle

\* "make sure the input files have the same size"
PairCheck ==
    /\ ppc = "check"
    /\ IF SizesAgree
       THEN ppc' = "spawn" /\ UNCHANGED pi_result
       ELSE ppc' = "done" /\ pi_result' = "InvalidInput"
    /\ UNCHANGED <<notPair, pi_tool, pi_files, input3_used, pi_num_procs, pi_spawned,
                   pi_worker_row, pi_chan, pi_created, pi_recv_rows, pi_written>>

\* one turn of `for tid in 0..num_procs { thread::spawn(..) }`
PairSpawn ==
    /\ ppc = "spawn"
    /\ pi_spawned < pi_num_procs
    /\ pi_spawned' = pi_spawned + 1
    /\ UNCHANGED <<notPair, pi_tool, pi_files, input3_used, pi_num_procs,
                   pi_worker_row, pi_chan, pi_created, pi_recv_rows, pi_written,
                   pi_result, ppc>>

\* Raster::initialize_using_file, after the last spawn
PairCreateOutput ==
    /\ ppc = "spawn"
    /\ pi_spawned = pi_num_procs
    /\ pi_created' = TRUE
    /\ ppc' = "collect"
    /\ UNCHANGED <<notPair, pi_tool, pi_files, input3_used, pi_num_procs, pi_spawned,
                   pi_worker_row, pi_chan, pi_recv_rows, pi_written, pi_result>>

\* a started worker sends its next row
PairWorkerSend(tid) ==
    /\ tid < pi_spawned
    /\ pi_worker_row[tid] < PairRows
    /\ pi_chan' = Append(pi_chan, pi_worker_row[tid])
    /\ pi_worker_row' = [pi_worker_row EXCEPT ![tid] = @ + pi_num_procs]
    /\ UNCHANGED <<notPair, pi_tool, pi_files, input3_used, pi_num_procs, pi_spawned,
                   pi_created, pi_recv_rows, pi_written, pi_result, ppc>>

\* one turn of the receiving loop: rx.recv() and output.set_row_data
PairCollect ==
    /\ ppc = "collect"
    /\ pi_chan # <<>>
    /\ pi_recv_rows' = Append(pi_recv_rows, Head(pi_chan))
    /\ pi_chan' = Tail(pi_chan)
    /\ ppc' = IF Len(pi_recv_rows) + 1 = PairRows THEN "write" ELSE "collect"
    /\ UNCHANGED <<notPair, pi_tool, pi_files, input3_used, pi_num_procs, pi_spawned,
                   pi_worker_row, pi_created, pi_written, pi_result>>

\* output.write()
PairWrite ==
    /\ ppc = "write"
    /\ \E ok \in BOOLEAN :
        /\ pi_written' = ok
        /\ pi_result' = IF ok THEN "Ok" ELSE "Err"
    /\ ppc' = "done"
    /\ UNCHANGED <<notPair, pi_tool, pi_files, input3_used, pi_num_procs, pi_spawned,
                   pi_worker_row, pi_chan, pi_created, pi_recv_rows>>

NextPair ==
    \/ PairCheck
    \/ PairSpawn
    \/ PairCreateOutput
    \/ \E tid \in 0 .. pi_num_procs - 1 : PairWorkerSend(tid)
    \/ PairCollect
    \/ PairWrite

SpecPair == InitPair /\ [][NextPair]_vars

\* two of the rasters the run opens differ in rows or in columns
Mismatched ==
    \E i, j \in DOMAIN pi_files :
        pi_files[i].rows # pi_files[j].rows \/ pi_files[i].columns # pi_files[j].columns

\* C30: when the inputs of SedimentTransportIndex (sca, slope) or of
\* WriteFunctionMemoryInsertion (the bands) differ in size, the run ends with
\* InvalidInput as the first thing it does: no worker has been started, no
\* output raster exists and nothing has been written, then or later.
C30_MismatchRejected ==
    (Mismatched /\ ppc # "check")
        => /\ ppc = "done"
           /\ pi_result = "InvalidInput"
           /\ pi_spawned = 0
           /\ pi_chan = <<>>
           /\ ~pi_created
           /\ pi_recv_rows = <<>>
           /\ ~pi_written

\* the third band alone differs, in its columns only
C30_Witness ==
    /\ ppc = "done"
    /\ pi_tool = "WriteFunctionMemoryInsertion"
    /\ input3_used
    /\ pi_files[1] = pi_files[2]
    /\ pi_files[3].rows = pi_files[1].rows
    /\ pi_files[3].columns # pi_files[1].columns
    /\ pi_result = "InvalidInput"

\* ---------------------------------------------------------------------------
\* FD8FlowAccumulation::run: argument parsing
\* ---------------------------------------------------------------------------

\* an argument after arg.split("="): the part before the first '=', whether
\* there is a second part, and that part
Arg(k, kv, v) == [k |-> k, kv |-> kv, v |-> v]

ArgTokens ==
    {Arg("--exponent", FALSE, ""), Arg("--exponent", TRUE, "2"), Arg("--exponent", TRUE, "x"),
     Arg("--threshold", FALSE, ""), Arg("--threshold", TRUE, "2"), Arg("--threshold", TRUE, "x"),
     Arg("2", FALSE, ""), Arg("x", FALSE, ""),
     Arg("--out_type", TRUE, "cells"), Arg("--log", FALSE, ""), Arg("--clip", FALSE, ""),
     Arg("-i", TRUE, "dem.dep"), Arg("-o", TRUE, "out.dep")}

\* str::parse::<f64>() on the strings of the model
ParseF64(str) ==
    IF str = "2" THEN [ok |-> TRUE, val |-> <<2, 1>>]
    ELSE IF str = "1" THEN [ok |-> TRUE, val |-> <<1, 1>>]
    ELSE [ok |-> FALSE, val |-> <<0, 1>>]

\* args[i + 1].to_string(): the next argument as it was given
RawString(tok) == IF tok.kv THEN "key=value" ELSE tok.k

\* the value of the flag at position i (0-based): vec[1], or the next argument
HasValue(i) == args[i + 1].kv \/ i + 1 < Len(args)

ValueOf(i) == IF args[i + 1].kv THEN args[i + 1].v ELSE RawString(args[i + 2])

\* out_type after the three `contains` tests
OutTypeOf(str) ==
    IF str \in {"specific contributing area", "sca"} THEN "sca"
    ELSE IF str = "cells" THEN "cells"
    ELSE "ca"

InitArgs ==
    /\ \E n \in 0 .. MaxArgs : args \in [1 .. n -> ArgTokens]
    /\ arg_i = 0
    /\ arg_input_file = "" /\ arg_output_file = ""
    /\ arg_out_type = "sca"
    /\ arg_exponent = <<11, 10>>
    /\ arg_threshold = Infinite
    /\ arg_log = FALSE /\ arg_clip = FALSE
    /\ args_result = "running"
    /\ apc = "start"
    /\ FD8Idle
    /\ BasinsIdle
    /\ ClumpIdle
    /\ StreamsIdle
    /\ PairIdle
    /\ SplitIdle

\* `if args.len() == 0 { return Err(InvalidInput) }`
ArgsStart ==
    /\ apc = "start"
    /\ IF Len(args) = 0
       THEN apc' = "done" /\ args_result' = "InvalidInput"
       ELSE apc' = "loop" /\ UNCHANGED args_result
    /\ UNCHANGED <<notArgs, args, arg_i, arg_input_file, arg_output_file, arg_out_type,
                   arg_exponent, arg_threshold, arg_log, arg_clip>>

\* one iteration of `for i in 0..args.len()`; an index past the end of args
\* and the unwrap of a failed parse both panic
ParseArg ==
    /\ apc = "loop"
    /\ arg_i < Len(args)
    /\ LET key == args[arg_i + 1].k
           valued == key \in {"-i", "--input", "--dem", "-o", "--output", "-out_type",
                              "--out_type", "-exponent", "--exponent", "-threshold",
                              "--threshold"}
           numeric == key \in {"-exponent", "--exponent", "-threshold", "--threshold"}
           panics == /\ valued
                     /\ \/ ~HasValue(arg_i)
                        \/ numeric /\ ~ParseF64(ValueOf(arg_i)).ok
       IN  IF panics
           THEN /\ apc' = "panic"
                /\ UNCHANGED <<arg_i, arg_input_file, arg_output_file, arg_out_type,
                               arg_exponent, arg_threshold, arg_log, arg_clip>>
           ELSE /\ arg_i' = arg_i + 1
                /\ apc' = "loop"
                /\ arg_input_file' = IF key \in {"-i", "--input", "--dem"}
                                     THEN ValueOf(arg_i) ELSE arg_input_file
                /\ arg_output_file' = IF key \in {"-o", "--output"}
                                      THEN ValueOf(arg_i) ELSE arg_output_file
                /\ arg_out_type' = IF key \in {"-out_type", "--out_type"}
                                   THEN OutTypeOf(ValueOf(arg_i)) ELSE arg_out_type
                /\ arg_exponent' = IF key \in {"-exponent", "--exponent"}
                                   THEN ParseF64(ValueOf(arg_i)).val ELSE arg_exponent
                /\ arg_threshold' = IF key \in {"-threshold", "--threshold"}
                                    THEN [inf |-> FALSE, v |-> ParseF64(ValueOf(arg_i)).val[1]]
                                    ELSE arg_threshold
                /\ arg_log' = (arg_log \/ key \in {"-log", "--log"})
                /\ arg_clip' = (arg_clip \/ key \in {"-clip", "--clip"})
    /\ UNCHANGED <<notArgs, args, args_result>>

\* the loop is over: run goes on to open the input
ArgsParsed ==
    /\ apc = "loop"
    /\ arg_i = Len(args)
    /\ apc' = "done"
    /\ args_result' = "parsed"
    /\ UNCHANGED <<notArgs, args, arg_i, arg_input_file, arg_output_file, arg_out_type,
                   arg_exponent, arg_threshold, arg_log, arg_clip>>

NextArgs == ArgsStart \/ ParseArg \/ ArgsParsed

SpecArgs == InitArgs /\ [][NextArgs]_vars

\* --exponent or --threshold is given a value that is not a number
Malformed ==
    \E i \in 0 .. Len(args) - 1 :
        /\ args[i + 1].k \in {"--exponent", "--threshold"}
        /\ HasValue(i)
        /\ ~ParseF64(ValueOf(i)).ok

\* C31: with a malformed numeric argument the run does not crash; it ends
\* with the error value InvalidInput.
C31_MalformedIsError ==
    Malformed
        => /\ apc # "panic"
           /\ apc = "done" => args_result = "InvalidInput"

\* ---------------------------------------------------------------------------
\* FD8: the post-pass
\* ---------------------------------------------------------------------------

IsPostPass == pc = "propagate" /\ pc' = "write"

\* q' = q * num / den, by cross-multiplication
IsTimes(q2, q, num, den) == q2[1] * q[2] * den = q[1] * q2[2] * num

AllRowsStored ==
    /\ num_received = rows
    /\ Len(recv_rows) = rows
    /\ {recv_rows[k] : k \in 1 .. Len(recv_rows)} = 0 .. rows - 1

\* C33: the propagation phase is entered only when the rows of all `rows`
\* rows have been received and stored, and no step pops a cell or changes an
\* accumulator before that, whatever the order of the workers' sends.
C33_CollectThenPropagate ==
    /\ [](pc # "collect" => AllRowsStored)
    /\ [][(popped' # popped \/ output' # output) => AllRowsStored]_vars

\* first pop of a run of two workers whose rows arrived in reverse
C33_Witness ==
    /\ pc = "propagate"
    /\ num_procs = 2 /\ rows = 2
    /\ recv_rows = <<1, 0>>
    /\ Len(popped) = 1
    /\ \E cell \in Cells : RatLess(RatInt(1), output[cell])

\* ---------------------------------------------------------------------------
\* WriteFunctionMemoryInsertion: packing; SplitColourComposite::run
\* ---------------------------------------------------------------------------

\* a u32 as its four bytes, most significant first; every u32 is an exact
\* f64, so the conversions `as f64` and `as u32` keep the four bytes
U32(byte) == <<0, 0, 0, byte>>

RECURSIVE BitOr(_, _)
BitOr(a, b) ==
    IF a = 0 THEN b
    ELSE IF b = 0 THEN a
    ELSE (IF a % 2 = 1 \/ b % 2 = 1 THEN 1 ELSE 0) + 2 * BitOr(a \div 2, b \div 2)

\* x | y
Or32(x, y) == [k \in 1 .. 4 |-> BitOr(x[k], y[k])]

\* x << n and x >> n for n in {0, 8, 16, 24}
Shl32(x, n) == [k \in 1 .. 4 |-> IF k + n \div 8 <= 4 THEN x[k + n \div 8] ELSE 0]
Shr32(x, n) == [k \in 1 .. 4 |-> IF k - n \div 8 >= 1 THEN x[k - n \div 8] ELSE 0]

\* x & 0xFF
AndFF(x) == <<0, 0, 0, x[4]>>

\* the value of a u32 that fits one byte
LowByte(x) == x[4]

\* (255 << 24) as u32
alpha_mask == Shl32(U32(255), 24)

\* mutant: red and blue change places in the packed value
PackBGR(r, g, b) == Or32(Or32(Or32(alpha_mask, Shl32(U32(r), 16)), Shl32(U32(g), 8)), U32(b))

\* alpha_mask | (b << 16) | (g << 8) | r
Pack(r, g, b) == Or32(Or32(Or32(alpha_mask, Shl32(U32(b), 16)), Shl32(U32(g), 8)), U32(r))

\* red, green and blue of a composite value
SplitRed(val) == LowByte(AndFF(val))
SplitGreen(val) == LowByte(AndFF(Shr32(val, 8)))
SplitBlue(val) == LowByte(AndFF(Shr32(val, 16)))

\* channel bytes of the pixels of the model
PixelSamples ==
    {<<0, 0, 0>>, <<255, 255, 255>>, <<1, 2, 3>>, <<255, 0, 128>>, <<0, 128, 255>>,
     <<127, 254, 1>>}

\* a cell of the composite: nodata, or a packed value
NodataCell == [nd |-> TRUE, val |-> U32(0)]
PackedCell(px) == [nd |-> FALSE, val |-> Pack(px[1], px[2], px[3])]

SplitCells == (0 .. sc_rows - 1) \X (0 .. sc_columns - 1)

\* the band `band` takes out of a packed value
SplitChannel(band, val) ==
    IF band = "r" THEN SplitRed(val)
    ELSE IF band = "g" THEN SplitGreen(val)
    ELSE SplitBlue(val)

\* data_r, data_g, data_b of one row
SplitRowData(row, band) ==
    [col \in 0 .. sc_columns - 1 |->
        IF sc_input[<<row, col>>].nd THEN sc_nodata
        ELSE SplitChannel(band, sc_input[<<row, col>>].val)]

\* Raster::set_row_data
SplitSetRowData(out, row, data) ==
    [cell \in SplitCells |-> IF cell[1] = row THEN data[cell[2]] ELSE out[cell]]

\* the state of a run whose composite draws its cells from `values`
SplitStart(values) ==
    /\ sc_rows \in 1 .. MaxRows
    /\ sc_columns \in 1 .. MaxCols
    /\ sc_rows * sc_columns <= MaxRows
    /\ sc_nodata \in {-32768, 0}
    /\ sc_input \in [SplitCells -> values]
    /\ sc_num_procs \in 1 .. MaxProcs
    /\ sc_worker_row = [tid \in 0 .. sc_num_procs - 1 |-> tid]
    /\ sc_chan = <<>>
    /\ sc_recv_rows = <<>>
    /\ output_r = [cell \in SplitCells |-> sc_nodata]
    /\ output_g = [cell \in SplitCells |-> sc_nodata]
    /\ output_b = [cell \in SplitCells |-> sc_nodata]
    /\ sc_result = "running"
    /\ spc = "collect"
    /\ BasinsIdle
    /\ ClumpIdle
    /\ StreamsIdle
    /\ PairIdle
    /\ ArgsIdle

InitSplit ==
    /\ SplitStart({NodataCell} \cup {PackedCell(px) : px \in PixelSamples})
    /\ FD8Idle

\* a worker thread splits its next row and sends the three buffers
SplitWorkerSend(tid) ==
    /\ sc_worker_row[tid] < sc_rows
    /\ LET row == sc_worker_row[tid]
       IN  /\ sc_chan' = Append(sc_chan, [row |-> row,
                                          data_r |-> SplitRowData(row, "r"),
                                          data_g |-> SplitRowData(row, "g"),
                                          data_b |-> SplitRowData(row, "b")])
           /\ sc_worker_row' = [sc_worker_row EXCEPT ![tid] = NextRow(row, sc_num_procs)]
    /\ UNCHANGED <<notSplit, sc_rows, sc_columns, sc_nodata, sc_input, sc_num_procs,
                   sc_recv_rows, output_r, output_g, output_b, sc_result, spc>>

\* one iteration of the receiving loop
SplitCollect ==
    /\ spc = "collect"
    /\ Len(sc_recv_rows) < sc_rows
    /\ sc_chan # <<>>
    /\ LET data == Head(sc_chan)
       IN  /\ output_r' = SplitSetRowData(output_r, data.row, data.data_r)
           /\ output_g' = SplitSetRowData(output_g, data.row, data.data_g)
           /\ output_b' = SplitSetRowData(output_b, data.row, data.data_b)
           /\ sc_recv_rows' = Append(sc_recv_rows, data.row)
    /\ sc_chan' = Tail(sc_chan)
    /\ spc' = IF Len(sc_recv_rows) + 1 = sc_rows THEN "write" ELSE "collect"
    /\ UNCHANGED <<notSplit, sc_rows, sc_columns, sc_nodata, sc_input, sc_num_procs,
                   sc_worker_row, sc_result>>

\* the three output.write() calls: the first failure is returned
SplitWrite ==
    /\ spc = "write"
    /\ \E ok \in BOOLEAN : sc_result' = IF ok THEN "Ok" ELSE "Err"
    /\ spc' = "done"
    /\ UNCHANGED <<notSplit, sc_rows, sc_columns, sc_nodata, sc_input, sc_num_procs,
                   sc_worker_row, sc_chan, sc_recv_rows, output_r, output_g, output_b>>

NextSplit ==
    \/ \E tid \in 0 .. sc_num_procs - 1 : SplitWorkerSend(tid)
    \/ SplitCollect
    \/ SplitWrite

SpecSplit == InitSplit /\ [][NextSplit]_vars

ByteSamples == {0, 128, 255}

SplitReceived(row) == \E k \in 1 .. Len(sc_recv_rows) : sc_recv_rows[k] = row

\* C39: the value packed from the channel bytes r, g, b is split back into
\* red = r, green = g, blue = b, and the three bands of an input row are
\* stored at that row's index in the red, green and blue outputs.
C39_PackSplitRoundTrip ==
    /\ \A r, g, b \in ByteSamples :
        LET packed == Pack(r, g, b)
        IN  /\ SplitRed(packed) = r
            /\ SplitGreen(packed) = g
            /\ SplitBlue(packed) = b
    /\ \A cell \in SplitCells :
        IF SplitReceived(cell[1])
        THEN \A px \in PixelSamples :
                sc_input[cell] = [nd |-> FALSE, val |-> Pack(px[1], px[2], px[3])]
                    => /\ output_r[cell] = px[1]
                       /\ output_g[cell] = px[2]
                       /\ output_b[cell] = px[3]
        ELSE /\ output_r[cell] = sc_nodata
             /\ output_g[cell] = sc_nodata
             /\ output_b[cell] = sc_nodata

\* two rows received in reverse order, each split into its own row
C39_Witness ==
    /\ spc = "done"
    /\ sc_rows = 2 /\ sc_recv_rows = <<1, 0>>
    /\ sc_input[<<0, 0>>] = [nd |-> FALSE, val |-> <<255, 3, 2, 1>>]
    /\ sc_input[<<1, 0>>] = [nd |-> FALSE, val |-> <<255, 128, 0, 255>>]
    /\ output_r[<<0, 0>>] = 1 /\ output_g[<<0, 0>>] = 2 /\ output_b[<<0, 0>>] = 3
    /\ output_r[<<1, 0>>] = 255 /\ output_g[<<1, 0>>] = 0 /\ output_b[<<1, 0>>] = 128

\* ---------------------------------------------------------------------------
\* The receiving loops of FD8FlowAccumulation and SplitColourComposite
\* ---------------------------------------------------------------------------

\* FD8 on rasters of two elevations and nodata
InitLevels ==
    /\ rows \in 1 .. MaxRows
    /\ columns \in 1 .. MaxCols
    /\ rows * columns <= MaxCells
    /\ nodata \in {0, MaxElev + 1}
    /\ input \in [Cells -> {1, MaxElev, nodata}]
    /\ convergence_threshold \in Thresholds
    /\ FD8Start

InitRecv == InitLevels \/ InitSplit

NextRecv == NextFD8 \/ NextSplit

\* a worker with a row to send and a coordinator with a message to receive
\* are scheduled in the end
SpecRecvFair ==
    /\ InitRecv
    /\ [][NextRecv]_vars
    /\ WF_vars(\E tid \in 0 .. num_procs - 1 : WorkerSend(tid))
    /\ WF_vars(Collect)
    /\ WF_vars(\E tid \in 0 .. sc_num_procs - 1 : SplitWorkerSend(tid))
    /\ WF_vars(SplitCollect)

SplitSentRows == sc_recv_rows \o [i \in 1 .. Len(sc_chan) |-> sc_chan[i].row]

\* every row is sent at most once
NoRowTwice(sent, nrows) ==
    /\ Len(sent) <= nrows
    /\ \A i, j \in 1 .. Len(sent) : i # j => sent[i] # sent[j]
    /\ \A i \in 1 .. Len(sent) : sent[i] \in 0 .. nrows - 1

\* the receiving loop has made all its iterations
RecvOver == IF pc = "idle" THEN spc # "collect" ELSE pc # "collect"

\* C34: with any number of workers, more than there are rows included, the
\* workers send each row once and `rows` messages in all; a coordinator that
\* waits on an empty channel has a message still to come; the loop of `rows`
\* receives comes to its end, and then no message is left in the channel and
\* no worker has a row left to send.
C34_ReceiveLoopEnds ==
    /\ [](/\ NoRowTwice(SentRows, rows)
          /\ (pc = "collect" /\ chan = <<>>)
                => \E tid \in 0 .. num_procs - 1 : worker_row[tid] < rows
          /\ pc \notin {"collect", "idle"}
                => /\ chan = <<>>
                   /\ Len(recv_rows) = rows
                   /\ \A tid \in 0 .. num_procs - 1 : worker_row[tid] >= rows)
    /\ [](/\ NoRowTwice(SplitSentRows, sc_rows)
          /\ (spc = "collect" /\ sc_chan = <<>>)
                => \E tid \in 0 .. sc_num_procs - 1 : sc_worker_row[tid] < sc_rows
          /\ spc \notin {"collect", "idle"}
                => /\ sc_chan = <<>>
                   /\ Len(sc_recv_rows) = sc_rows
                   /\ \A tid \in 0 .. sc_num_procs - 1 : sc_worker_row[tid] >= sc_rows)
    /\ <>RecvOver

\* one row and two workers: the second worker has sent nothing and the
\* loop is over
C34_Witness ==
    /\ spc = "write"
    /\ sc_rows = 1 /\ sc_num_procs = 2
    /\ sc_recv_rows = <<0>>
    /\ sc_worker_row[1] = 1
    /\ sc_chan = <<>>

\* ---------------------------------------------------------------------------
\* FD8: nodata cells
\* ---------------------------------------------------------------------------

NodataCells == Cells \ ValidCells

\* C35: a nodata cell is never pushed and never popped, its in-degree entry
\* is -1 in every state, its accumulator keeps the initial value through the
\* propagation (it receives no contribution) and is nodata from the post-pass
\* on.
C35_NodataUntouched ==
    \A cell \in NodataCells :
        /\ pushes[cell] = 0
        /\ cell \notin Range(stack)
        /\ cell \notin PoppedSet
        /\ num_inflowing[cell] = -1
        /\ pc \in {"collect", "propagate"} => output[cell] = RatInt(1)
        /\ pc \in {"write", "done"} => output[cell] = RatInt(nodata)

\* a finished run in which a valid cell next to a nodata cell of lower value
\* has been popped and has passed flow on to another cell
C35_Witness ==
    /\ pc = "done"
    /\ \E a \in NodataCells, b \in PoppedSet :
        /\ \E i \in 0 .. 7 : Nbr(b, i) = a
        /\ input[a] < input[b]
        /\ LowerNbrs(b) # {}
        /\ output[a] = RatInt(nodata)


\* ---------------------------------------------------------------------------
\* Basins: the finished raster
\* ---------------------------------------------------------------------------

\* the output value at the end of a pointer: the cell pointed at, nodata when
\* the pointer leaves the grid
PointedValue(cell) ==
    IF Downstream(cell) \in PntrCells THEN basins[Downstream(cell)] ELSE pntr_nodata

\* C36: after a run (a run over a pointer raster with a cycle does not come to
\* its end) no cell holds the unresolved value low_value, and every valid cell
\* whose pointer is one of the eight codes holds the output value of the cell
\* its pointer leads to, nodata when the pointer leads outside the grid.
C36_SameAsDownstream ==
    bpc = "done"
        => /\ \A cell \in PntrCells : basins[cell] # low_value
           /\ \A cell \in PntrCells :
                pntr[cell] \in Codes => basins[cell] = PointedValue(cell)

\* a finished run with a chain of two cells into a pit and a cell whose
\* pointer leaves the grid
C36_Witness ==
    /\ bpc = "done"
    /\ \E a, b, c \in PntrCells :
        /\ pntr[a] \in Codes /\ pntr[b] \in Codes /\ pntr[c] \in Codes
        /\ Downstream(a) = b
        /\ Downstream(b) \in Pits
        /\ basins[a] = basins[Downstream(b)]
        /\ basins[a] >= 1
        /\ Downstream(c) \notin PntrCells
        /\ basins[c] = pntr_nodata

\* ---------------------------------------------------------------------------
\* Clump: numbering of the regions
\* ---------------------------------------------------------------------------

\* row-major position of a cell
ClumpIndex(cell) == cell[1] * clump_columns + cell[2]

Regions == {RegionOf(c) : c \in Foreground}

\* the cell of a region the scan comes to first
FirstCell(R) == CHOOSE c \in R : \A o \in R : ClumpIndex(c) <= ClumpIndex(o)

\* position of a region when the regions are put in the order of their first cells
Rank(R) ==
    Cardinality({Q \in Regions : ClumpIndex(FirstCell(Q)) <= ClumpIndex(FirstCell(R))})

\* an iteration of the scan that counts fid up
NewRegion == cpc = "scan" /\ fid' = fid + 1

\* the labels the cells of the regions hold in the output raster
LabelsHeld ==
    {clump_output[c] : c \in {o \in Foreground : clump_output[o] # clump_nodata}}

PushedNow == {c \in ClumpCells : clump_pushed'[c] # clump_pushed[c]}

Running == cpc \in {"scan", "fill"}

\* C38: a cell is pushed only while it is unlabelled and is labelled by the
\* step that pushes it; no cell is pushed more than once over the run and the
\* stack never holds more than rows * columns entries.
C38_PushedOnce ==
    /\ [][Running =>
            \A c \in PushedNow :
                /\ clump_output[c] = clump_nodata
                /\ clump_output'[c] # clump_nodata]_vars
    /\ [](\A c \in ClumpCells : clump_pushed[c] <= 1)
    /\ [](Len(clump_stack) <= clump_rows * clump_columns)

====
